----------------------------- MODULE MemoryPages -----------------------------
(***************************************************************************)
(* How an Agent searches and reads memory in pages (memory_search,         *)
(* memory_read) and what submit-plan makes of it (complete_reads): a plan  *)
(* may rest on an entry only when every character of it was read in this   *)
(* round.  A historical entry has no sidecar, so its text may be edited    *)
(* between two pages; a page is recorded with the hash of its text.        *)
(***************************************************************************)
EXTENDS Integers, FiniteSets, SequencesExt

CONSTANTS
  Lengths,  (* the texts the entry has had: a function from text to length   *)
  MaxRows,  (* bound: rows of memory_reads                                   *)
  MaxPage,  (* the largest limit of a search (100)                           *)
  MaxHits   (* bound: how many records match a search                        *)

ASSUME PagesAssumption ==
  /\ \A b \in DOMAIN Lengths : Lengths[b] \in Nat \ {0}
  /\ \E b \in DOMAIN Lengths : \A c \in DOMAIN Lengths : Lengths[c] <= Lengths[b]
  /\ MaxRows \in Nat /\ MaxPage \in Nat \ {0} /\ MaxHits \in Nat

VARIABLES
  body,    (* the current text                                               *)
  rows,    (* memory_reads of this round, status complete                    *)
  basis,   (* the text an accepted plan was compiled with, if any            *)
  hits,    (* how many records match                                         *)
  offset,  (* the cursor; -1: the search has ended                           *)
  got      (* how often each record was returned                             *)

vars == <<body, rows, basis, hits, offset, got>>

Bodies  == DOMAIN Lengths
Longest == CHOOSE n \in {Lengths[b] : b \in Bodies} : \A b \in Bodies : Lengths[b] <= n
NoPlan  == "no plan"

TypeOK ==
  /\ body \in Bodies /\ basis \in Bodies \cup {NoPlan}
  /\ rows \subseteq [body : Bodies, offset : 0..Longest, count : 0..Longest]
  /\ hits \in 0..MaxHits /\ offset \in -1..MaxHits + MaxPage
  /\ got \in [1..MaxHits -> Nat]

Init ==
  /\ body \in Bodies /\ rows = {} /\ basis = NoPlan
  /\ hits \in 0..MaxHits /\ offset = 0 /\ got = [i \in 1..MaxHits |-> 0]

Least(m, n) == IF m < n THEN m ELSE n
Most(m, n)  == IF m < n THEN n ELSE m

-----------------------------------------------------------------------------
(* memory_search: one record more than the page is asked for, to see       *)
(* whether there is a next page                                            *)

(* Fault: a page that is full is always the last but one. *)
HasMoreNaive(records, limit) == records > limit

HasMore(records, limit) == records > limit \/ (records = limit /\ limit = MaxPage)

Search(limit) ==
  LET records == Least(Least(limit + 1, MaxPage), Most(hits - offset, 0)) IN
  /\ offset >= 0
  /\ got' = [i \in 1..MaxHits |->
       IF i > offset /\ i <= offset + Least(records, limit) THEN got[i] + 1 ELSE got[i]]
  /\ offset' = IF HasMore(records, limit) THEN offset + limit ELSE -1
  /\ UNCHANGED <<body, rows, basis, hits>>

-----------------------------------------------------------------------------
(* memory_read, submit-plan                                                *)

PageSize(start, limit) == Most(0, Least(limit, Lengths[body] - start))

Read(start, limit) ==
  /\ basis = NoPlan /\ Cardinality(rows) < MaxRows
  /\ rows' = rows \cup {[body |-> body, offset |-> start, count |-> PageSize(start, limit)]}
  /\ UNCHANGED <<body, basis, hits, offset, got>>

Edit ==
  /\ \E b \in Bodies \ {body} : body' = b
  /\ UNCHANGED <<rows, basis, hits, offset, got>>

(* Fault: the next page may start behind the end of the last one. *)
ExtendedLoosely(end, row) ==
  IF row.offset <= end + 1 THEN Most(end, row.offset + row.count) ELSE end

Extended(end, row) ==
  IF row.offset <= end THEN Most(end, row.offset + row.count) ELSE end

(* The rows of one text, in an order the query may return them in: rows    *)
(* with the same offset come in any order.                                 *)
Orders(b) == {s \in SetToSeqs({row \in rows : row.body = b}) :
                \A i, j \in DOMAIN s : i < j => s[i].offset <= s[j].offset}
ReadTo(s) == FoldLeft(Extended, 0, s)
Complete(b) == {row \in rows : row.body = b} # {} /\ \E s \in Orders(b) : ReadTo(s) >= Lengths[b]

(* Fault: the text is not compared with the one that was read. *)
AcceptsAny(b) == Complete(b)

(* The hash complete_reads names for the entry is that of a text that was  *)
(* read completely (one of them, when two were); the plan is refused when  *)
(* the entry has another one now.                                          *)
Accepts(b) == Complete(b) /\ b = body

SubmitPlan ==
  /\ basis = NoPlan
  /\ \E b \in Bodies : Accepts(b)
  /\ basis' = body
  /\ UNCHANGED <<body, rows, hits, offset, got>>

SearchStep == \E limit \in 1..MaxPage : Search(limit)
ReadStep   == \E start \in 0..Longest, limit \in 1..Longest : Read(start, limit)

Next == SearchStep \/ ReadStep \/ SubmitPlan \/ Edit
Spec == Init /\ [][Next]_vars

-----------------------------------------------------------------------------
(* A search that followed its cursors to the end has returned every record *)
(* exactly once, whatever limits it used and also when the number of       *)
(* records is a multiple of the largest page.                              *)
EndedSearchIsComplete ==
  offset = -1 => \A i \in 1..MaxHits : got[i] = IF i <= hits THEN 1 ELSE 0

Characters(row) == (row.offset + 1)..(row.offset + row.count)
Covered(b) == UNION {Characters(row) : row \in {x \in rows : x.body = b}}

(* The running end that complete_reads computes over the sorted pages      *)
(* decides whether they cover the text, for every order of equal offsets.  *)
CompleteMeansCovered ==
  \A b \in Bodies : \A s \in Orders(b) :
    (ReadTo(s) >= Lengths[b]) <=> (1..Lengths[b] \subseteq Covered(b))

(* What an accepted plan was compiled with, the Agent had read, every      *)
(* character of that very text, in this round.                             *)
BasisWasRead == basis # NoPlan => 1..Lengths[basis] \subseteq Covered(basis)

(* A plan rests on what was read, and that is decided by the pages.        *)
ReadingIsDecided == CompleteMeansCovered /\ BasisWasRead

=============================================================================
