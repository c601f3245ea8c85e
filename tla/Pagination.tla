------------------------------ MODULE Pagination ------------------------------
(***************************************************************************)
(* A page of a list (pagination.py), and the page a scan picks out of its  *)
(* walk (monitor_service._scan).  A query's ORDER BY is a strict order     *)
(* Before(_, _); on a total one, OFFSET n LIMIT k are the rows with n to   *)
(* n + k - 1 others before them.                                           *)
(***************************************************************************)
EXTENDS Integers, FiniteSets

Rank(x, rows, Before(_, _)) == Cardinality({y \in rows : Before(y, x)})

Page(rows, Before(_, _), page, size) ==
    LET offset == (page - 1) * size
    IN  {x \in rows : Rank(x, rows, Before) \in offset..offset + size - 1}

TotalPages(total, size) == (total + size - 1) \div size

\* The positions, counted from 0, at which a scan keeps what it walks past.
Window(page, size) == (page - 1) * size..(page - 1) * size + size - 1

\* _scan: the matches by increasing id, in batches that do not show in the answer.
ScanPage(matches, page, size) ==
    LET walk == CHOOSE f \in [1..Cardinality(matches) -> matches] :
                    \A k, n \in DOMAIN f : k < n => f[k] < f[n]
    IN  {walk[k] : k \in {n \in DOMAIN walk : n - 1 \in Window(page, size)}}

\* The pages 1..TotalPages share the rows out: none empty, none too long, no row on two of
\* them or on none, and nothing beyond the last.
Partitioned(rows, Before(_, _), size) ==
    LET n == TotalPages(Cardinality(rows), size)
        pages == [p \in 1..n + 1 |-> Page(rows, Before, p, size)]
    IN  /\ \A p \in 1..n : Cardinality(pages[p]) \in 1..size
        /\ \A p, q \in 1..n : p # q => pages[p] \cap pages[q] = {}
        /\ UNION {pages[p] : p \in 1..n} = rows
        /\ pages[n + 1] = {}
===============================================================================
