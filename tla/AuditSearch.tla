----------------------------- MODULE AuditSearch -----------------------------
(***************************************************************************)
(* MailAuditQueryService.search over the table of mails: filter, order,    *)
(* page, total.  A mail is named by its place in the table; what matters   *)
(* of it is when it was created and its status.  The rows and the total    *)
(* are read by two queries, each of which sees the table of its moment.    *)
(***************************************************************************)
EXTENDS Integers, Sequences, FiniteSets

\* What a client may ask for; "any" leaves out the filter.
Query == [filter : {"any", "pending", "sent", "failed"}, direction : {"ASC", "DESC"},
          page : Int, limit : Int]

\* Math.max and Math.min of two numbers.
Larger(a, b) == IF a > b THEN a ELSE b
Smaller(a, b) == IF a < b THEN a ELSE b

\* applyFilters
Matching(mails, query) ==
    {m \in DOMAIN mails : query.filter \in {"any", mails[m].status}}

\* ORDER BY createdAt: mails of one moment may come in any order, and in
\* another one the next time.
Orders(mails, query) ==
    LET found == Matching(mails, query)
        size == Cardinality(found)
    IN  {q \in [1..size -> found] :
            \A i, j \in 1..size : i < j =>
                /\ q[i] # q[j]
                /\ IF query.direction = "ASC" THEN mails[q[i]].at <= mails[q[j]].at
                                              ELSE mails[q[i]].at >= mails[q[j]].at}

PageOf(query) == Larger(1, query.page)
LimitOf(query) == Smaller(Larger(1, query.limit), 100)

\* Operators whose names end in Mutant are wrong on purpose: put in the place
\* of the operator that follows, each makes a run report a violation.

\* Pages are counted from zero.
SkipMutant(query) == PageOf(query) * LimitOf(query)

Skip(query) == (PageOf(query) - 1) * LimitOf(query)

\* skip, take, getMany
Rows(order, query) ==
    SubSeq(order, Skip(query) + 1, Smaller(Skip(query) + LimitOf(query), Len(order)))

\* getManyAndCount asks for the total only if the page does not tell it.
NeedsCount(rows, query) ==
    Len(rows) = LimitOf(query) \/ (rows = <<>> /\ Skip(query) > 0)

Ceiling(a, b) == (a + b - 1) \div b

TotalPages(total, query) == Larger(1, Ceiling(total, LimitOf(query)))
=============================================================================
