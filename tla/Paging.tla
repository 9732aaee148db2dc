------------------------------- MODULE Paging -------------------------------
(* The page arithmetic every list route shares: page_params (src/api.rs),      *)
(* clamp_per_page (src/types.rs) and the descending pages of                   *)
(* src/node_reads.rs. An Option is a set of at most one value.                 *)
EXTENDS Integers, Sequences

CONSTANTS
    MAX_U64,           \* 2^64 - 1 in the build
    MAX_I64,           \* 2^63 - 1: what an SQLite integer holds
    DEFAULT_PER_PAGE,  \* 25 in the code
    MAX_PER_PAGE,      \* 100 in the code
    Pages,             \* the pages a client may ask for
    PageSizes          \* the ?per_page= values (Options) a client may ask for

ASSUME PagingAssumption ==
    /\ MAX_U64 \in Nat /\ MAX_I64 \in Nat /\ MAX_I64 < MAX_U64
    /\ MAX_PER_PAGE \in Nat \ {0} /\ MAX_PER_PAGE <= MAX_U64
    /\ DEFAULT_PER_PAGE \in 1..MAX_PER_PAGE
    /\ Pages \subseteq Nat /\ PageSizes \subseteq SUBSET Nat

-----------------------------------------------------------------------------
unwrap_or(option, default) == IF option = {} THEN default ELSE CHOOSE x \in option : TRUE

clamp(x, low, high) == IF x < low THEN low ELSE IF x > high THEN high ELSE x

saturating_sub(a, b) == IF b > a THEN 0 ELSE a - b

saturating_mul(a, b) == IF a * b > MAX_U64 THEN MAX_U64 ELSE a * b

(* Mutant of checked_mul: the product wraps, as `*` does in a release build.   *)
wrapping_mul(a, b) == {(a * b) % (MAX_U64 + 1)}

checked_mul(a, b) == {x \in {a * b} : x <= MAX_U64}

-----------------------------------------------------------------------------
clamp_per_page(requested) ==
    clamp(unwrap_or(requested, DEFAULT_PER_PAGE), 1, MAX_PER_PAGE)

(* The row offset page_params computes for the SQLite routes.                  *)
page_offset(page, per_page) == saturating_mul(page, per_page)

(* External (rusqlite): a u64 is bound as a signed integer, or not at all.     *)
Bindable(x) == x <= MAX_I64

(* Mutant of desc_page_bounds: the page past the end is judged too early.      *)
desc_page_bounds_short(total, page, per_page) ==
    {<<saturating_sub(total - 1 - skip, per_page - 1), total - 1 - skip>> :
       skip \in {s \in checked_mul(page, per_page) : s < total - 1}}

(* The inclusive bounds of a 0-based descending page over items 0..total - 1,  *)
(* or nothing for a page past the end.                                         *)
desc_page_bounds(total, page, per_page) ==
    {<<saturating_sub(total - 1 - skip, saturating_sub(per_page, 1)), total - 1 - skip>> :
       skip \in {s \in checked_mul(page, per_page) : s < total}}

(* The items of a page as a set, and as the list served, newest first.         *)
PageItems(total, page, per_page) ==
    UNION {b[1]..b[2] : b \in desc_page_bounds(total, page, per_page)}

desc_page_items(total, page, per_page) ==
    LET bounds == desc_page_bounds(total, page, per_page) IN
    IF bounds = {} THEN <<>>
    ELSE LET b == CHOOSE x \in bounds : TRUE IN
         [i \in 1..(b[2] - b[1] + 1) |-> b[2] - i + 1]

(* Outputs are numbered from 1.                                                *)
consensus_page_numbers(total, page, per_page) ==
    LET items == desc_page_items(total, page, per_page) IN
    [i \in DOMAIN items |-> items[i] + 1]

(* Mutant of consensus_number_stored: the output being written counts.         *)
consensus_number_next(number, latest) == number # 0 /\ number <= latest + 1

(* Number 0 is never stored, and nothing past the tip is.                      *)
consensus_number_stored(number, latest) == number # 0 /\ number <= latest
=============================================================================
