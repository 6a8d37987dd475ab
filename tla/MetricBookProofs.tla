-------------------------- MODULE MetricBookProofs --------------------------
(***************************************************************************)
(* Proofs about MetricBook for any sets of keys, documents, jobs and       *)
(* reviewers, and about Ask for any questions to any book.                 *)
(***************************************************************************)
EXTENDS MetricBook, Ask, SequenceTheorems, WellFoundedInduction, FiniteSetTheorems, TLAPS

(* Where a request is tells which of its locals are set, and an item that  *)
(* exists has a proposal.  TypeOK alone is not inductive without it.       *)
JobOK(j) ==
  /\ pc[j] \in {"idle", "proposal", "insert", "done"}
  /\ pc[j] = "idle" => decided[j] = <<>>
  /\ pc[j] \in {"proposal", "insert"} => doc[j] \in Docs /\ Len(decided[j]) <= Len(Extract[doc[j]])

(* The items of a job appear when it commits. *)
Unseen(j) ==
  pc[j] # "done" => \A n \in 1..MaxProposals :
    inbox[<<j, n>>] = "none" /\ proposed[<<j, n>>] = NoProposal

ReviewOK(r) ==
  /\ pc[r] \in {"idle", "select", "insert", "commit"}
  /\ pc[r] # "idle" =>
       /\ review[r] \in [item : Items, patch : Patches]
       /\ proposed[review[r].item] \in Proposal
       /\ BookedKey(review[r].patch, proposed[review[r].item]) \in Keys

LocalOK ==
  /\ \A j \in Jobs : JobOK(j) /\ Unseen(j)
  /\ \A r \in Reviewers : ReviewOK(r)
  /\ \A a \in Actors : pc[a] \in {"insert", "commit"} => row[a] \in [key : Keys, fact : Fact]
  /\ \A i \in Items : inbox[i] # "none" => proposed[i] \in Proposal

TypeInv == TypeOK /\ LocalOK

(* Rows an open transaction holds continue the chain of their key: they    *)
(* are numbered from the committed length on.                              *)
StagedExtends ==
  \A a \in Actors, k \in Keys : \A n \in DOMAIN staged[a][k] :
    /\ staged[a][k][n].version = Len(book[k]) + n
    /\ staged[a][k][n].restates = Len(book[k]) + n - 1

(* A row about to be inserted restates the version before it, was read no  *)
(* later than now, and is the very next one when its transaction already   *)
(* holds rows of the key.                                                  *)
RowIsBehind ==
  \A a \in Actors : pc[a] = "insert" =>
    LET k == row[a].key
        f == row[a].fact
        seen == Len(book[k]) + Len(staged[a][k])
    IN  /\ f.version = f.restates + 1
        /\ f.restates <= seen
        /\ staged[a][k] # <<>> => f.restates = seen

ChainInv == VersionChain /\ OneWriterPerKey /\ StagedExtends /\ RowIsBehind

(* Where the elements of an appended or concatenated sequence come from.   *)
LEMMA AppendElement ==
  ASSUME NEW t \in Seq(Fact), NEW y \in Fact, NEW x \in DOMAIN Append(t, y)
  PROVE  \/ Append(t, y)[x] = y
         \/ x \in DOMAIN t /\ Append(t, y)[x] = t[x]
<1>1. CASE x = Len(t) + 1
  <2>1. Append(t, y)[Len(t) + 1] = y
    BY AppendProperties
  <2>2. QED
    BY <1>1, <2>1
<1>2. CASE x # Len(t) + 1
  BY <1>2
<1>3. QED
  BY <1>1, <1>2

(* An element of a concatenation comes from one of its two parts. *)
LEMMA ConcatElement ==
  ASSUME NEW t \in Seq(Fact), NEW u \in Seq(Fact), NEW x \in DOMAIN (t \o u)
  PROVE  \/ x \in DOMAIN t /\ (t \o u)[x] = t[x]
         \/ \E m \in DOMAIN u : (t \o u)[x] = u[m]
<1>1. CASE x <= Len(t)
  BY <1>1
<1>2. CASE x > Len(t)
  <2>1. x - Len(t) \in DOMAIN u /\ (t \o u)[x] = u[x - Len(t)]
    BY <1>2
  <2>2. QED
    BY <2>1
<1>3. QED
  BY <1>1, <1>2

(* Reapplying the ledger to a proposal yields a proposal of the same key. *)
LEMMA LedgerAppliedType ==
  ASSUME NEW rows \in Seq(Correction), NEW q \in Proposal, NEW p \in LedgerApplied(rows, q)
  PROVE  p \in Proposal /\ p.key = q.key
<1>1. CASE Hits(rows, q) = {}
  BY <1>1 DEF LedgerApplied
<1>2. CASE Hits(rows, q) # {}
  <2>1. PICK n \in Hits(rows, q) : p = Corrected(q, rows[n])
    BY <1>2 DEF LedgerApplied
  <2>2. rows[n] \in Correction
    BY DEF Hits
  <2>3. 99 \in 0..100
    OBVIOUS
  <2>4. QED
    BY <2>1, <2>2, <2>3 DEF Corrected, Proposal, Correction
<1>3. QED
  BY <1>1, <1>2

(* What a confirm of a real proposal books is well typed. *)
LEMMA BookedType ==
  ASSUME NEW patch \in Patches, NEW p \in Proposal
  PROVE  /\ BookedKey(patch, p) \in Keys \cup {Absent}
         /\ BookedValue(patch, p) \in Values
         /\ BookedUnit(patch, p) \in Units
  BY MetricBookAssumption DEF BookedKey, BookedValue, BookedUnit, OrElse, Patch, Proposal

(* Inserting a well typed row leaves the rows of all transactions well     *)
(* typed.                                                                  *)
LEMMA InsertType ==
  ASSUME TypeInv, NEW a \in Actors, pc[a] = "insert", Insert(a)
  PROVE  staged' \in [Actors -> [Keys -> Seq(Fact)]]
  BY DEF TypeInv, TypeOK, LocalOK, Insert

(* A commit leaves the book and the open transactions well typed. *)
LEMMA PublishType ==
  ASSUME TypeOK, NEW a \in Actors, Publish(a)
  PROVE  /\ book' \in [Keys -> Seq(Fact)]
         /\ staged' \in [Actors -> [Keys -> Seq(Fact)]]
  BY DEF TypeOK, Publish, NoRows

(* A request that is over has reset what it held. *)
LEMMA ForgetType ==
  ASSUME TypeOK, NEW a \in Actors, Forget(a)
  PROVE  /\ pc' \in [Actors -> {"idle", "proposal", "select", "insert", "commit", "done"}]
         /\ row' \in [Actors -> [key : Keys, fact : Fact] \cup {Absent}]
         /\ review' \in [Reviewers -> [item : Items, patch : Patches] \cup {Absent}]
         /\ pc'[a] = IF a \in Jobs THEN "done" ELSE "idle"
         /\ \A b \in Actors : b # a => pc'[b] = pc[b] /\ row'[b] = row[b]
         /\ \A r \in Reviewers : r # a => review'[r] = review[r]
  BY DEF TypeOK, Forget

(* A request that is over leaves the others as they were, when it changes   *)
(* neither the proposals they work on nor the progress of the jobs.         *)
LEMMA ForgetLocal ==
  ASSUME TypeOK, LocalOK, NEW a \in Actors, Forget(a), UNCHANGED jobVars,
         \A i \in Items : proposed[i] \in Proposal => proposed'[i] = proposed[i]
  PROVE  /\ \A j \in Jobs : JobOK(j)'
         /\ \A r \in Reviewers : ReviewOK(r)'
         /\ \A b \in Actors : pc'[b] \in {"insert", "commit"} => row'[b] \in [key : Keys, fact : Fact]
<1>0. Jobs \subseteq Actors /\ Reviewers \subseteq Actors /\ Jobs \cap Reviewers = {}
      /\ Actors = Jobs \cup Reviewers
  BY MetricBookAssumption DEF Actors
<1>1. ASSUME NEW j \in Jobs PROVE JobOK(j)'
  BY <1>0, <1>1, ForgetType DEF LocalOK, JobOK, jobVars
<1>2. ASSUME NEW r \in Reviewers PROVE ReviewOK(r)'
  <2>1. CASE r = a
    BY <1>0, <2>1, ForgetType DEF ReviewOK
  <2>2. CASE r # a
    <3>1. pc'[r] = pc[r] /\ review'[r] = review[r]
      BY <1>0, <2>2, ForgetType
    <3>2. ReviewOK(r)
      BY DEF LocalOK
    <3>3. pc[r] # "idle" => proposed'[review[r].item] = proposed[review[r].item]
      BY <3>2 DEF ReviewOK
    <3>4. QED
      BY <3>1, <3>2, <3>3 DEF ReviewOK
  <2>3. QED
    BY <2>1, <2>2
<1>3. ASSUME NEW b \in Actors, pc'[b] \in {"insert", "commit"} PROVE row'[b] \in [key : Keys, fact : Fact]
  BY <1>0, <1>3, ForgetType DEF LocalOK
<1>4. QED
  BY <1>1, <1>2, <1>3

(* An inbox row that does not exist yet holds no proposal.                 *)
LEMMA NoProposalIsNone == NoProposal \notin Proposal
  BY MetricBookAssumption DEF NoProposal, Proposal

(* The empty database is well typed and no request is on its way.          *)
LEMMA InitType == Init => TypeInv
<1> SUFFICES ASSUME Init PROVE TypeOK /\ LocalOK
  BY DEF TypeInv
<1>1. book \in [Keys -> Seq(Fact)] /\ staged \in [Actors -> [Keys -> Seq(Fact)]]
  BY DEF Init, NoRows
<1>2. inbox \in [Items -> Statuses] /\ proposed \in [Items -> Proposal \cup {NoProposal}]
  BY DEF Init, Statuses
<1>3. /\ corrections \in Seq(Correction)
      /\ ledger \in [Jobs -> Seq(Correction)]
      /\ decided \in [Jobs -> Seq(Entry)]
  BY DEF Init
<1>4. /\ pc \in [Actors -> {"idle", "proposal", "select", "insert", "commit", "done"}]
      /\ row \in [Actors -> [key : Keys, fact : Fact] \cup {Absent}]
      /\ doc \in [Jobs -> Docs \cup {Absent}]
      /\ review \in [Reviewers -> [item : Items, patch : Patches] \cup {Absent}]
  BY DEF Init
<1>5. LocalOK
  BY DEF Init, LocalOK, JobOK, Unseen, ReviewOK, Actors, Items
<1>6. QED
  BY <1>1, <1>2, <1>3, <1>4, <1>5 DEF TypeOK

(* The highest of the versions 1..n is n. *)
LEMMA MaxOfInterval == \A n \in Nat : 1..n # {} => n > 0 /\ Max(1..n) = n
<1> SUFFICES ASSUME NEW n \in Nat, 1..n # {} PROVE n > 0 /\ Max(1..n) = n
  OBVIOUS
<1>1. n \in 1..n /\ \A y \in 1..n : n >= y
  OBVIOUS
<1>2. \A x \in 1..n : (\A y \in 1..n : x >= y) => x = n
  BY <1>1
<1>3. QED
  BY <1>1, <1>2 DEF Max

(* A transaction sees the committed rows of a key and its own, which       *)
(* continue them: the top version is their number.                         *)
LEMMA TopVersionIs ==
  ASSUME TypeOK, ChainInv, NEW a \in Actors, NEW k \in Keys
  PROVE  TopVersion(a, k) = Len(book[k]) + Len(staged[a][k])
<1> DEFINE B == book[k]
           S == staged[a][k]
           seen == Versions(B) \cup Versions(S)
<1>1. B \in Seq(Fact) /\ S \in Seq(Fact)
  BY DEF TypeOK
<1>2. \A n \in DOMAIN B : B[n].version = n
  BY DEF ChainInv, VersionChain
<1>3. \A n \in DOMAIN S : S[n].version = Len(B) + n
  BY DEF ChainInv, StagedExtends
<1>4. TopVersion(a, k) = IF seen = {} THEN 0 ELSE Max(seen)
  BY DEF TopVersion
<1> HIDE DEF B, S
<1> DEFINE L == Len(B) + Len(S)
<1>5. L \in Nat
  BY <1>1
<1>6. ASSUME NEW v \in seen PROVE v \in 1..L
  <2>1. CASE \E n \in DOMAIN B : v = B[n].version
    BY <1>1, <1>2, <2>1
  <2>2. CASE \E n \in DOMAIN S : v = S[n].version
    BY <1>1, <1>3, <2>2
  <2>3. QED
    BY <2>1, <2>2 DEF Versions
<1>7. ASSUME NEW v \in 1..L PROVE v \in seen
  <2>1. CASE v <= Len(B)
    BY <1>1, <1>2, <2>1 DEF Versions
  <2>2. CASE v > Len(B)
    <3>1. v - Len(B) \in 1..Len(S) /\ Len(B) + (v - Len(B)) = v
      BY <1>1, <2>2
    <3>2. DOMAIN S = 1..Len(S)
      BY <1>1
    <3>3. S[v - Len(B)].version = v
      BY <1>3, <3>1, <3>2
    <3>4. QED
      BY <3>1, <3>2, <3>3 DEF Versions
  <2>3. QED
    BY <1>1, <2>1, <2>2
<1>8. seen = 1..L
  BY <1>6, <1>7
<1> HIDE DEF seen, L
<1>9. IF seen = {} THEN L = 0 ELSE Max(seen) = L
  <2>1. CASE seen = {}
    BY <1>5, <1>8, <2>1
  <2>2. CASE seen # {}
    BY <1>5, <1>8, <2>2, MaxOfInterval
  <2>3. QED
    BY <2>1, <2>2
<1>10. TopVersion(a, k) = L
  BY <1>4, <1>9
<1>11. QED
  BY <1>10 DEF L, B, S

-----------------------------------------------------------------------------
(* The row a SELECT prepares is well typed: the top version is a number    *)
(* because the versions a transaction sees are an interval.                *)
LEMMA SelectType ==
  ASSUME TypeOK, ChainInv, NEW a \in Actors, NEW k \in Keys, NEW v \in Values,
         NEW u \in Units, NEW i \in Items, Select(a, k, v, u, i)
  PROVE  /\ row' \in [Actors -> [key : Keys, fact : Fact] \cup {Absent}]
         /\ row'[a] \in [key : Keys, fact : Fact]
         /\ row'[a].key = k
         /\ row'[a].fact.restates = Len(book[k]) + Len(staged[a][k])
         /\ row'[a].fact.version = row'[a].fact.restates + 1
         /\ \A b \in Actors : b # a => row'[b] = row[b]
<1> DEFINE top == TopVersion(a, k)
<1>1. top = Len(book[k]) + Len(staged[a][k])
  BY TopVersionIs
<1>2. top \in Nat
  BY <1>1 DEF TypeOK
<1> HIDE DEF top
<1>3. [version |-> top + 1, restates |-> top, value |-> v, unit |-> u, item |-> i, by |-> a] \in Fact
  BY <1>2 DEF Fact
<1>4. row' = [row EXCEPT ![a] = [key |-> k, fact |->
        [version |-> top + 1, restates |-> top, value |-> v, unit |-> u, item |-> i, by |-> a]]]
  BY DEF Select, top
<1>5. QED
  BY <1>1, <1>3, <1>4 DEF TypeOK

(* The row a SELECT prepares is of the item it was prepared for.           *)
LEMMA SelectItem ==
  ASSUME NEW a \in Actors, NEW k, NEW v, NEW u, NEW i, Select(a, k, v, u, i), TypeOK, NEW S, i \in S
  PROVE  row'[a].fact.item \in S
<1>1. row'[a] = [key |-> k, fact |->
        [version |-> TopVersion(a, k) + 1, restates |-> TopVersion(a, k), value |-> v,
         unit |-> u, item |-> i, by |-> a]]
  BY DEF Select, TypeOK
<1>2. QED
  BY <1>1

(* Every step keeps the state well typed and the locals set where they     *)
(* are used.                                                               *)
LEMMA StepType == TypeInv /\ ChainInv /\ [Next]_vars => TypeInv'
<1> SUFFICES ASSUME TypeInv, TypeOK, LocalOK, ChainInv, [Next]_vars
             PROVE  TypeOK' /\ LocalOK'
  BY DEF TypeInv
<1>0. Jobs \subseteq Actors /\ Reviewers \subseteq Actors /\ Jobs \cap Reviewers = {}
      /\ Actors = Jobs \cup Reviewers
  BY MetricBookAssumption DEF Actors
<1>1. ASSUME NEW j \in Jobs, ParseBegin(j) PROVE TypeOK' /\ LocalOK'
  <2>1. PICK d \in Docs : /\ doc' = [doc EXCEPT ![j] = d]
                          /\ ledger' = [ledger EXCEPT ![j] = IF d \in Filed THEN corrections ELSE <<>>]
    BY <1>1 DEF ParseBegin
  <2>2. ledger' \in [Jobs -> Seq(Correction)]
    BY <2>1 DEF TypeOK
  <2>3. Len(Extract[d]) \in Nat /\ decided[j] = <<>>
    BY <1>1, MetricBookAssumption DEF ParseBegin, LocalOK, JobOK
  <2>4. TypeOK'
    BY <1>0, <1>1, <2>1, <2>2 DEF ParseBegin, TypeOK, tables
  <2>5. LocalOK'
    <3>1. /\ pc' = [pc EXCEPT ![j] = "proposal"] /\ pc[j] = "idle"
          /\ UNCHANGED <<inbox, proposed, row, decided, review>>
      BY <1>1 DEF ParseBegin, tables
    <3>2. ASSUME NEW h \in Jobs PROVE JobOK(h)' /\ Unseen(h)'
      BY <1>0, <2>1, <2>3, <3>1 DEF TypeOK, LocalOK, JobOK, Unseen
    <3>3. ASSUME NEW r \in Reviewers PROVE ReviewOK(r)'
      BY <1>0, <3>1 DEF TypeOK, LocalOK, ReviewOK
    <3>4. QED
      BY <1>0, <3>1, <3>2, <3>3 DEF TypeOK, LocalOK
  <2>6. QED
    BY <2>4, <2>5
<1>2. ASSUME NEW j \in Jobs, ParseProposal(j) PROVE TypeOK' /\ LocalOK'
  <2> DEFINE n == Len(decided[j]) + 1
  <2>1. /\ doc[j] \in Docs /\ n \in 1..Len(Extract[doc[j]]) /\ n \in 1..MaxProposals
        /\ Extract[doc[j]][n] \in Proposal
    BY <1>0, <1>2, MetricBookAssumption DEF ParseProposal, TypeOK, LocalOK, JobOK
  <2>2. PICK p \in LedgerApplied(ledger[j], Extract[doc[j]][n]) :
          \/ /\ decided' = [decided EXCEPT ![j] = Append(@, [status |-> "pending", prop |-> p])]
             /\ UNCHANGED <<pc, row>>
          \/ /\ ShouldAutoConfirm(p, doc[j])
             /\ decided' = [decided EXCEPT ![j] = Append(@, [status |-> "confirmed", prop |-> p])]
             /\ pc' = [pc EXCEPT ![j] = "insert"]
             /\ Select(j, p.key, p.value, p.unit, <<j, n>>)
    BY <1>2 DEF ParseProposal
  <2>3. p \in Proposal
    BY <2>1, <2>2, LedgerAppliedType DEF TypeOK
  <2>4. PICK e \in Entry : decided' = [decided EXCEPT ![j] = Append(@, e)]
    BY <2>2, <2>3 DEF Entry
  <2>41. /\ decided' \in [Jobs -> Seq(Entry)]
         /\ Len(decided'[j]) = n
         /\ \A h \in Jobs : h # j => decided'[h] = decided[h]
    BY <2>4 DEF TypeOK
  <2>5. UNCHANGED <<tables, staged, doc, ledger, review>> /\ pc[j] = "proposal"
    BY <1>2 DEF ParseProposal
  <2>6. CASE UNCHANGED <<pc, row>>
    <3>1. TypeOK'
      BY <2>41, <2>5, <2>6 DEF TypeOK, tables
    <3>2. LocalOK'
      BY <1>0, <2>1, <2>41, <2>5, <2>6 DEF TypeOK, LocalOK, JobOK, Unseen, ReviewOK, tables
    <3>3. QED
      BY <3>1, <3>2
  <2>7. CASE /\ ShouldAutoConfirm(p, doc[j])
             /\ pc' = [pc EXCEPT ![j] = "insert"]
             /\ Select(j, p.key, p.value, p.unit, <<j, n>>)
    <3>1. p.key \in Keys /\ p.value \in Values /\ p.unit \in Units /\ <<j, n>> \in Items
      BY <2>1, <2>3, <2>7 DEF ShouldAutoConfirm, Proposal, Items
    <3>2. /\ row' \in [Actors -> [key : Keys, fact : Fact] \cup {Absent}]
          /\ row'[j] \in [key : Keys, fact : Fact]
          /\ \A b \in Actors : b # j => row'[b] = row[b]
      BY <1>0, <2>7, <3>1, SelectType
    <3>3. TypeOK'
      BY <1>0, <2>41, <2>5, <2>7, <3>2 DEF TypeOK, tables
    <3>4. LocalOK'
      BY <1>0, <2>1, <2>41, <2>5, <2>7, <3>2 DEF TypeOK, LocalOK, JobOK, Unseen, ReviewOK, tables
    <3>5. QED
      BY <3>3, <3>4
  <2>8. QED
    BY <2>2, <2>6, <2>7
<1>3. ASSUME NEW j \in Jobs, ParseAutoInsert(j) PROVE TypeOK' /\ LocalOK'
  <2>1. staged' \in [Actors -> [Keys -> Seq(Fact)]]
    BY <1>0, <1>3, InsertType DEF ParseAutoInsert
  <2>2. TypeOK'
    BY <1>0, <1>3, <2>1 DEF ParseAutoInsert, TypeOK, tables, jobVars
  <2>3. LocalOK'
    BY <1>0, <1>3 DEF ParseAutoInsert, TypeOK, LocalOK, JobOK, Unseen, ReviewOK, tables, jobVars
  <2>4. QED
    BY <2>2, <2>3
<1>4. ASSUME NEW j \in Jobs, ParseCommit(j) PROVE TypeOK' /\ LocalOK'
  <2> DEFINE mine == {<<j, n>> : n \in DOMAIN decided[j]}
  <2>1. /\ Publish(j) /\ Forget(j) /\ UNCHANGED <<corrections, jobVars>> /\ pc[j] = "proposal"
        /\ inbox' = [i \in Items |-> IF i \in mine THEN decided[j][i[2]].status ELSE inbox[i]]
        /\ proposed' = [i \in Items |-> IF i \in mine THEN decided[j][i[2]].prop ELSE proposed[i]]
    BY <1>4 DEF ParseCommit
  <2>2. ASSUME NEW i \in mine PROVE decided[j][i[2]] \in Entry
    <3>1. decided[j] \in Seq(Entry)
      BY DEF TypeOK
    <3>2. PICK n \in DOMAIN decided[j] : i = <<j, n>>
      OBVIOUS
    <3>3. decided[j][n] \in Entry
      BY <3>1
    <3>4. QED
      BY <3>2, <3>3
  <2>3. \A i \in mine : decided[j][i[2]].status \in {"pending", "confirmed"}
                         /\ decided[j][i[2]].prop \in Proposal
    BY <2>2 DEF Entry
  <2>4. ASSUME NEW i \in Items, i \in mine PROVE inbox[i] = "none" /\ proposed[i] = NoProposal
    <3>1. PICK n \in DOMAIN decided[j] : i = <<j, n>>
      BY <2>4
    <3>2. n \in 1..MaxProposals
      BY <2>4, <3>1 DEF Items
    <3>3. QED
      BY <2>1, <3>1, <3>2 DEF LocalOK, Unseen
  <2>5. ASSUME NEW h \in Jobs, h # j, NEW n \in 1..MaxProposals PROVE <<h, n>> \notin mine
    BY <2>5
  <2> HIDE DEF mine
  <2>6. inbox' \in [Items -> Statuses] /\ proposed' \in [Items -> Proposal \cup {NoProposal}]
    BY <2>1, <2>3 DEF TypeOK, Statuses
  <2>7. \A i \in Items : inbox'[i] # "none" => proposed'[i] \in Proposal
    BY <2>1, <2>3 DEF LocalOK
  <2>8. \A i \in Items : proposed[i] \in Proposal => proposed'[i] = proposed[i]
    BY <2>1, <2>4, NoProposalIsNone
  <2>9. ASSUME NEW h \in Jobs PROVE Unseen(h)'
    <3>1. CASE h = j
      BY <1>0, <2>1, <3>1, ForgetType DEF Unseen
    <3>2. CASE h # j
      BY <1>0, <2>1, <2>5, <3>2, ForgetType DEF LocalOK, Unseen, Items
    <3>3. QED
      BY <3>1, <3>2
  <2>10. TypeOK'
    BY <1>0, <2>1, <2>6, ForgetType, PublishType DEF TypeOK, jobVars
  <2>11. LocalOK'
    BY <1>0, <2>1, <2>7, <2>8, <2>9, ForgetLocal DEF LocalOK, jobVars
  <2>12. QED
    BY <2>10, <2>11
<1>5. ASSUME NEW r \in Reviewers, NEW i \in Items, NEW patch \in Patches, ConfirmBegin(r, i, patch)
      PROVE  TypeOK' /\ LocalOK'
  <2> DEFINE p == proposed[i]
  <2>1. p \in Proposal
    BY <1>5 DEF ConfirmBegin, LocalOK
  <2>2. BookedKey(patch, p) \in Keys
    BY <1>5, <2>1, BookedType DEF ConfirmBegin
  <2>3. TypeOK'
    BY <1>0, <1>5 DEF ConfirmBegin, TypeOK, tables, jobVars
  <2>4. LocalOK'
    BY <1>0, <1>5, <2>1, <2>2 DEF ConfirmBegin, TypeOK, LocalOK, JobOK, Unseen, ReviewOK, tables, jobVars
  <2>5. QED
    BY <2>3, <2>4
<1>6. ASSUME NEW r \in Reviewers, ConfirmSelect(r) PROVE TypeOK' /\ LocalOK'
  <2> DEFINE i == review[r].item
             patch == review[r].patch
             p == proposed[i]
  <2>1. /\ i \in Items /\ p \in Proposal /\ patch \in Patches
        /\ BookedKey(patch, p) \in Keys
    BY <1>6 DEF ConfirmSelect, LocalOK, ReviewOK
  <2>2. BookedValue(patch, p) \in Values /\ BookedUnit(patch, p) \in Units
    BY <2>1, BookedType
  <2>3. /\ row' \in [Actors -> [key : Keys, fact : Fact] \cup {Absent}]
        /\ row'[r] \in [key : Keys, fact : Fact]
        /\ \A b \in Actors : b # r => row'[b] = row[b]
    BY <1>0, <1>6, <2>1, <2>2, SelectType DEF ConfirmSelect
  <2>4. TypeOK'
    BY <1>0, <1>6, <2>3 DEF ConfirmSelect, TypeOK, tables, jobVars
  <2>5. LocalOK'
    BY <1>0, <1>6, <2>3 DEF ConfirmSelect, TypeOK, LocalOK, JobOK, Unseen, ReviewOK, tables, jobVars
  <2>6. QED
    BY <2>4, <2>5
<1>7. ASSUME NEW r \in Reviewers, ConfirmInsert(r) PROVE TypeOK' /\ LocalOK'
  <2>1. staged' \in [Actors -> [Keys -> Seq(Fact)]]
    BY <1>0, <1>7, InsertType DEF ConfirmInsert
  <2>2. TypeOK'
    BY <1>0, <1>7, <2>1 DEF ConfirmInsert, TypeOK, tables, jobVars
  <2>3. LocalOK'
    BY <1>0, <1>7 DEF ConfirmInsert, TypeOK, LocalOK, JobOK, Unseen, ReviewOK, tables, jobVars
  <2>4. QED
    BY <2>2, <2>3
<1>8. ASSUME NEW r \in Reviewers, ConfirmCommit(r) PROVE TypeOK' /\ LocalOK'
  <2> DEFINE i == review[r].item
             status == IF review[r].patch.value # Absent \/ review[r].patch.unit # Absent
                       THEN "edited" ELSE "confirmed"
  <2>1. i \in Items /\ proposed[i] \in Proposal /\ row[r] \in [key : Keys, fact : Fact]
    BY <1>0, <1>8 DEF ConfirmCommit, LocalOK, ReviewOK
  <2>2. /\ Publish(r) /\ Forget(r) /\ UNCHANGED <<proposed, jobVars>>
        /\ inbox' = [inbox EXCEPT ![i] = status]
    BY <1>8 DEF ConfirmCommit
  <2>3. [key |-> row[r].key, value |-> row[r].fact.value, unit |-> row[r].fact.unit] \in Correction
    BY <2>1 DEF Fact, Correction
  <2>4. corrections' \in Seq(Correction)
    BY <1>8, <2>3 DEF ConfirmCommit, TypeOK
  <2>5. status \in Statuses
    BY DEF Statuses
  <2> HIDE DEF status
  <2>6. TypeOK'
    BY <1>0, <2>2, <2>4, <2>5, ForgetType, PublishType DEF TypeOK, jobVars
  <2>7. ASSUME NEW h \in Jobs PROVE Unseen(h)'
    <3>1. pc'[h] = pc[h] /\ h # r
      BY <1>0, <2>2, ForgetType
    <3>2. ASSUME NEW n \in 1..MaxProposals, pc[h] # "done"
          PROVE  inbox'[<<h, n>>] = "none" /\ proposed'[<<h, n>>] = NoProposal
      <4>1. inbox[<<h, n>>] = "none" /\ proposed[<<h, n>>] = NoProposal
        BY <3>2 DEF LocalOK, Unseen
      <4>2. i # <<h, n>>
        BY <2>1, <4>1, NoProposalIsNone
      <4>3. QED
        BY <2>2, <4>1, <4>2 DEF TypeOK, Items
    <3>3. QED
      BY <3>1, <3>2 DEF Unseen
  <2>8. \A k \in Items : inbox'[k] # "none" => proposed'[k] \in Proposal
    BY <2>1, <2>2 DEF TypeOK, LocalOK
  <2>9. LocalOK'
    BY <1>0, <2>2, <2>7, <2>8, ForgetLocal DEF LocalOK, jobVars
  <2>10. QED
    BY <2>6, <2>9
<1>9. ASSUME NEW a \in Actors, Rollback(a) PROVE TypeOK' /\ LocalOK'
  <2>1. Forget(a) /\ UNCHANGED <<tables, jobVars>> /\ staged' = [staged EXCEPT ![a] = NoRows]
    BY <1>9 DEF Rollback
  <2>2. NoRows \in [Keys -> Seq(Fact)]
    BY DEF NoRows
  <2>3. TypeOK'
    BY <2>1, <2>2, ForgetType DEF TypeOK, tables, jobVars
  <2>4. \A h \in Jobs : Unseen(h)'
    BY <1>0, <1>9, <2>1, ForgetType DEF Rollback, LocalOK, Unseen, tables
  <2>5. LocalOK'
    BY <1>0, <2>1, <2>4, ForgetLocal DEF LocalOK, tables
  <2>6. QED
    BY <2>3, <2>5
<1>10. ASSUME NEW i \in Items, Reject(i) PROVE TypeOK' /\ LocalOK'
  <2>1. /\ inbox[i] # "none" /\ inbox' = [inbox EXCEPT ![i] = "rejected"]
        /\ UNCHANGED <<book, proposed, corrections, pc, staged, row, jobVars, review>>
    BY <1>10 DEF Reject
  <2>2. TypeOK'
    BY <2>1 DEF TypeOK, Statuses, jobVars
  <2>3. ASSUME NEW j \in Jobs PROVE JobOK(j)' /\ Unseen(j)'
    BY <2>1 DEF TypeOK, LocalOK, JobOK, Unseen, jobVars, Items
  <2>4. ASSUME NEW r \in Reviewers PROVE ReviewOK(r)'
    BY <2>1 DEF LocalOK, ReviewOK
  <2>5. QED
    BY <2>1, <2>2, <2>3, <2>4 DEF TypeOK, LocalOK
<1>11. CASE UNCHANGED vars
  BY <1>11 DEF vars, tables, jobVars, TypeOK, LocalOK, JobOK, Unseen, ReviewOK
<1>12. QED
  BY <1>1, <1>2, <1>3, <1>4, <1>5, <1>6, <1>7, <1>8, <1>9, <1>10, <1>11 DEF Next, Parse, Confirm
-----------------------------------------------------------------------------
(* An INSERT the unique index admits continues the chain, and no other     *)
(* open transaction holds rows of the key.                                 *)
LEMMA InsertContinues ==
  ASSUME TypeInv, ChainInv, NEW a \in Actors, pc[a] = "insert", Insert(a)
  PROVE  LET k == row[a].key
             f == row[a].fact
         IN  /\ k \in Keys /\ f \in Fact
             /\ f.version = Len(book[k]) + Len(staged[a][k]) + 1
             /\ f.restates = Len(book[k]) + Len(staged[a][k])
             /\ \A b \in Actors : b # a => staged[b][k] = <<>>
<1> DEFINE k == row[a].key
           f == row[a].fact
<1>1. k \in Keys /\ f \in Fact
  BY DEF TypeInv, LocalOK
<1>2. /\ f.version \in Nat /\ f.restates \in Nat
      /\ book[k] \in Seq(Fact) /\ \A b \in Actors : staged[b][k] \in Seq(Fact)
  BY <1>1 DEF TypeInv, TypeOK, Fact
<1>3. /\ f.version = f.restates + 1
      /\ f.restates <= Len(book[k]) + Len(staged[a][k])
      /\ staged[a][k] # <<>> => f.restates = Len(book[k]) + Len(staged[a][k])
  BY DEF ChainInv, RowIsBehind
<1>4. f.version \notin Versions(book[k]) /\ \A b \in Actors : f.version \notin Versions(staged[b][k])
  BY DEF Insert, IndexAdmits
<1>5. CASE staged[a][k] # <<>>
  BY <1>1, <1>2, <1>3, <1>5 DEF ChainInv, OneWriterPerKey
<1>6. CASE staged[a][k] = <<>>
  <2>1. \A n \in DOMAIN book[k] : book[k][n].version = n
    BY <1>1 DEF ChainInv, VersionChain
  <2>2. f.version \notin DOMAIN book[k]
    BY <1>4, <2>1 DEF Versions
  <2>3. f.version = Len(book[k]) + 1
    BY <1>2, <1>3, <1>6, <2>2
  <2>4. ASSUME NEW b \in Actors, staged[b][k] # <<>> PROVE FALSE
    <3>1. 1 \in DOMAIN staged[b][k]
      BY <1>2, <2>4
    <3>2. staged[b][k][1].version = Len(book[k]) + 1
      BY <1>1, <3>1 DEF ChainInv, StagedExtends
    <3>3. QED
      BY <1>4, <2>3, <3>1, <3>2 DEF Versions
  <2>5. QED
    BY <1>1, <1>2, <1>3, <1>6, <2>3, <2>4
<1>7. QED
  BY <1>5, <1>6

(* An INSERT the unique index admits keeps the chain of versions and the   *)
(* single writer of each key.                                              *)
LEMMA InsertChain ==
  ASSUME TypeInv, ChainInv, NEW a \in Actors, pc[a] = "insert", Insert(a), UNCHANGED <<book, row>>,
         \A b \in Actors : pc'[b] = "insert" => pc[b] = "insert" /\ b # a
  PROVE  ChainInv'
<1> DEFINE k == row[a].key
           f == row[a].fact
<1>1. /\ k \in Keys /\ f \in Fact
      /\ f.version = Len(book[k]) + Len(staged[a][k]) + 1
      /\ f.restates = Len(book[k]) + Len(staged[a][k])
      /\ \A b \in Actors : b # a => staged[b][k] = <<>>
  BY InsertContinues
<1>2. /\ staged'[a][k] = Append(staged[a][k], f)
      /\ \A b \in Actors, l \in Keys : b # a \/ l # k => staged'[b][l] = staged[b][l]
  BY <1>1 DEF Insert, TypeInv, TypeOK
<1>3. staged[a][k] \in Seq(Fact) /\ Len(book[k]) \in Nat
  BY <1>1 DEF TypeInv, TypeOK
<1> HIDE DEF k, f
<1>4. OneWriterPerKey'
  BY <1>1, <1>2 DEF ChainInv, OneWriterPerKey
<1>5. ASSUME NEW b \in Actors, NEW l \in Keys, NEW n \in DOMAIN staged'[b][l]
      PROVE  /\ staged'[b][l][n].version = Len(book[l]) + n
             /\ staged'[b][l][n].restates = Len(book[l]) + n - 1
  <2>1. CASE b = a /\ l = k
    <3>1. CASE n = Len(staged[a][k]) + 1
      <4>1. Append(staged[a][k], f)[Len(staged[a][k]) + 1] = f
        BY <1>1, <1>3
      <4>2. staged'[b][l][n] = f
        BY <1>2, <2>1, <3>1, <4>1
      <4>3. Len(staged[a][k]) \in Nat
        BY <1>3
      <4>4. \A x, y \in Nat : x + y + 1 = x + (y + 1) /\ x + y = x + (y + 1) - 1
        OBVIOUS
      <4>5. f.version = Len(book[k]) + n /\ f.restates = Len(book[k]) + n - 1
        BY <1>1, <1>3, <3>1, <4>3, <4>4
      <4>6. QED
        BY <2>1, <4>2, <4>5
    <3>2. CASE n # Len(staged[a][k]) + 1
      <4>1. n \in DOMAIN staged[a][k] /\ staged'[a][k][n] = staged[a][k][n]
        BY <1>2, <1>3, <1>5, <2>1, <3>2
      <4>2. QED
        BY <1>1, <2>1, <4>1 DEF ChainInv, StagedExtends
    <3>3. QED
      BY <3>1, <3>2
  <2>2. CASE b # a \/ l # k
    <3>1. staged'[b][l] = staged[b][l]
      BY <1>2, <2>2
    <3>2. n \in DOMAIN staged[b][l]
      BY <3>1
    <3>3. QED
      BY <3>1, <3>2 DEF ChainInv, StagedExtends
  <2>3. QED
    BY <2>1, <2>2
<1>6. StagedExtends'
  BY <1>5 DEF StagedExtends
<1>7. RowIsBehind'
  BY <1>2 DEF ChainInv, RowIsBehind, TypeInv, LocalOK
<1>8. VersionChain'
  BY DEF ChainInv, VersionChain
<1>9. QED
  BY <1>4, <1>6, <1>7, <1>8 DEF ChainInv

(* A commit appends the rows of one transaction; no other transaction      *)
(* holds rows of those keys.                                               *)
LEMMA PublishChain ==
  ASSUME TypeInv, ChainInv, NEW a \in Actors, Publish(a), Forget(a)
  PROVE  ChainInv'
<1>1. \A k \in Keys : book'[k] = book[k] \o staged[a][k] /\ staged'[a][k] = <<>>
  BY DEF Publish, NoRows, TypeInv, TypeOK
<1>2. \A b \in Actors : b # a => staged'[b] = staged[b] /\ pc'[b] = pc[b] /\ row'[b] = row[b]
  BY ForgetType DEF Publish, TypeInv, TypeOK
<1>3. pc'[a] # "insert"
  BY ForgetType DEF TypeInv
<1>4. \A k \in Keys, b \in Actors : book[k] \in Seq(Fact) /\ staged[b][k] \in Seq(Fact)
  BY DEF TypeInv, TypeOK
<1>5. \A k \in Keys, b \in Actors : b # a /\ staged[b][k] # <<>> => book'[k] = book[k]
  <2> SUFFICES ASSUME NEW k \in Keys, NEW b \in Actors, b # a, staged[b][k] # <<>>
               PROVE  book'[k] = book[k]
    OBVIOUS
  <2>1. staged[a][k] = <<>>
    BY DEF ChainInv, OneWriterPerKey
  <2>2. book[k] \in Seq(Fact) /\ book'[k] = book[k] \o <<>>
    BY <1>1, <1>4, <2>1
  <2>3. \A t \in Seq(Fact) : t \o <<>> = t
    OBVIOUS
  <2>4. QED
    BY <2>2, <2>3
<1>6. ASSUME NEW k \in Keys PROVE Len(book'[k]) \in Nat /\ Len(book'[k]) >= Len(book[k])
  <2>1. book[k] \in Seq(Fact) /\ staged[a][k] \in Seq(Fact) /\ book'[k] = book[k] \o staged[a][k]
    BY <1>1, <1>4
  <2>2. \A t, u \in Seq(Fact) : Len(t \o u) = Len(t) + Len(u) /\ Len(t) \in Nat /\ Len(u) \in Nat
    OBVIOUS
  <2>3. Len(book'[k]) = Len(book[k]) + Len(staged[a][k]) /\ Len(book[k]) \in Nat /\ Len(staged[a][k]) \in Nat
    BY <2>1, <2>2
  <2>4. \A x, y, z : y \in Nat /\ z \in Nat /\ x = y + z => x \in Nat /\ x >= y
    OBVIOUS
  <2>5. QED
    BY <2>3, <2>4
<1>7. VersionChain'
  <2> SUFFICES ASSUME NEW k \in Keys, NEW n \in DOMAIN book'[k]
               PROVE  book'[k][n].version = n /\ book'[k][n].restates = n - 1
    BY DEF VersionChain
  <2> DEFINE B == book[k]
             S == staged[a][k]
  <2>1. B \in Seq(Fact) /\ S \in Seq(Fact) /\ book'[k] = B \o S
    BY <1>1, <1>4
  <2>2. \A m \in DOMAIN B : B[m].version = m /\ B[m].restates = m - 1
    BY DEF ChainInv, VersionChain
  <2>3. \A m \in DOMAIN S : S[m].version = Len(B) + m /\ S[m].restates = Len(B) + m - 1
    BY DEF ChainInv, StagedExtends
  <2> HIDE DEF B, S
  <2>4. CASE n <= Len(B)
    BY <2>1, <2>2, <2>4
  <2>5. CASE n > Len(B)
    <3>1. n - Len(B) \in DOMAIN S /\ (B \o S)[n] = S[n - Len(B)]
      BY <2>1, <2>5
    <3>2. S[n - Len(B)].version = Len(B) + (n - Len(B))
          /\ S[n - Len(B)].restates = Len(B) + (n - Len(B)) - 1
      BY <2>3, <3>1
    <3>3. n \in Nat /\ Len(B) \in Nat
      BY <2>1
    <3>4. QED
      BY <2>1, <3>1, <3>2, <3>3
  <2>6. QED
    BY <2>1, <2>4, <2>5
<1>8. OneWriterPerKey'
  <2> SUFFICES ASSUME NEW b \in Actors, NEW c \in Actors, NEW k \in Keys, b # c
               PROVE  staged'[b][k] = <<>> \/ staged'[c][k] = <<>>
    BY DEF OneWriterPerKey
  <2>1. CASE b = a \/ c = a
    BY <1>1, <2>1
  <2>2. CASE b # a /\ c # a
    <3>1. staged'[b] = staged[b] /\ staged'[c] = staged[c]
      BY <1>2, <2>2
    <3>2. QED
      BY <3>1 DEF ChainInv, OneWriterPerKey
  <2>3. QED
    BY <2>1, <2>2
<1>9. StagedExtends'
  <2> SUFFICES ASSUME NEW b \in Actors, NEW k \in Keys, NEW n \in DOMAIN staged'[b][k]
               PROVE  /\ staged'[b][k][n].version = Len(book'[k]) + n
                      /\ staged'[b][k][n].restates = Len(book'[k]) + n - 1
    BY DEF StagedExtends
  <2>1. staged'[b][k] # <<>>
    OBVIOUS
  <2>2. b # a
    BY <1>1, <2>1
  <2>3. staged'[b][k] = staged[b][k]
    BY <1>2, <2>2
  <2>4. book'[k] = book[k]
    BY <1>5, <2>1, <2>2, <2>3
  <2>5. n \in DOMAIN staged[b][k]
    BY <2>3
  <2>6. QED
    BY <2>3, <2>4, <2>5 DEF ChainInv, StagedExtends
<1>10. RowIsBehind'
  <2> SUFFICES ASSUME NEW b \in Actors, pc'[b] = "insert"
               PROVE  LET k == row'[b].key
                          f == row'[b].fact
                          seen == Len(book'[k]) + Len(staged'[b][k])
                      IN  /\ f.version = f.restates + 1
                          /\ f.restates <= seen
                          /\ staged'[b][k] # <<>> => f.restates = seen
    BY DEF RowIsBehind
  <2> DEFINE k == row[b].key
             f == row[b].fact
  <2>1. b # a /\ row'[b] = row[b] /\ staged'[b] = staged[b] /\ pc[b] = "insert"
    BY <1>2, <1>3
  <2>2. k \in Keys /\ f.restates \in Nat
    BY <2>1 DEF TypeInv, LocalOK, Fact
  <2>3. /\ f.version = f.restates + 1
        /\ f.restates <= Len(book[k]) + Len(staged[b][k])
        /\ staged[b][k] # <<>> => f.restates = Len(book[k]) + Len(staged[b][k])
    BY <2>1 DEF ChainInv, RowIsBehind
  <2>4. Len(book[k]) \in Nat /\ Len(staged[b][k]) \in Nat
    BY <1>4, <2>2
  <2> HIDE DEF k, f
  <2>5. f.restates <= Len(book'[k]) + Len(staged[b][k])
    <3>1. Len(book'[k]) \in Nat /\ Len(book'[k]) >= Len(book[k])
      BY <1>6, <2>2
    <3>2. \A x, y, z, t \in Nat : x <= y + t /\ z >= y => x <= z + t
      OBVIOUS
    <3>3. QED
      BY <2>2, <2>3, <2>4, <3>1, <3>2
  <2>6. staged[b][k] # <<>> => f.restates = Len(book'[k]) + Len(staged[b][k])
    BY <1>5, <2>1, <2>2, <2>3
  <2>7. QED
    BY <2>1, <2>3, <2>5, <2>6 DEF k, f
<1>11. QED
  BY <1>7, <1>8, <1>9, <1>10 DEF ChainInv

(* A step that writes neither rows nor the book, in a transaction of its    *)
(* own, leaves the chain alone if it prepares no row.                       *)
LEMMA QuietChain ==
  ASSUME ChainInv, UNCHANGED <<book, staged>>,
         \A b \in Actors : pc'[b] = "insert" => pc[b] = "insert" /\ row'[b] = row[b]
  PROVE  ChainInv'
  BY DEF ChainInv, VersionChain, OneWriterPerKey, StagedExtends, RowIsBehind

(* A SELECT prepares the version after all the transaction sees. *)
LEMMA SelectChain ==
  ASSUME TypeInv, ChainInv, NEW a \in Actors, NEW k \in Keys, NEW v \in Values,
         NEW u \in Units, NEW i \in Items, Select(a, k, v, u, i), UNCHANGED <<book, staged>>,
         \A b \in Actors : b # a => pc'[b] = pc[b]
  PROVE  ChainInv'
<1>1. VersionChain' /\ OneWriterPerKey' /\ StagedExtends'
  BY DEF ChainInv, VersionChain, OneWriterPerKey, StagedExtends
<1>2. ASSUME NEW b \in Actors, pc'[b] = "insert"
      PROVE  LET l == row'[b].key
                 f == row'[b].fact
                 seen == Len(book[l]) + Len(staged[b][l])
             IN  /\ f.version = f.restates + 1
                 /\ f.restates <= seen
                 /\ staged[b][l] # <<>> => f.restates = seen
  <2>1. CASE b = a
    <3>1. /\ row'[a].key = k
          /\ row'[a].fact.restates = Len(book[k]) + Len(staged[a][k])
          /\ row'[a].fact.version = row'[a].fact.restates + 1
      BY SelectType DEF TypeInv
    <3>2. Len(book[k]) \in Nat /\ Len(staged[a][k]) \in Nat
      BY DEF TypeInv, TypeOK
    <3>3. QED
      BY <2>1, <3>1, <3>2
  <2>2. CASE b # a
    <3>1. row'[b] = row[b] /\ pc[b] = "insert"
      BY <1>2, <2>2, SelectType DEF TypeInv
    <3>2. QED
      BY <3>1 DEF ChainInv, RowIsBehind
  <2>3. QED
    BY <2>1, <2>2
<1>3. RowIsBehind'
  BY <1>2 DEF RowIsBehind
<1>4. QED
  BY <1>1, <1>3 DEF ChainInv

(* A transaction that is rolled back only gives its rows up. *)
LEMMA RollbackChain ==
  ASSUME TypeInv, ChainInv, NEW a \in Actors, Rollback(a)
  PROVE  ChainInv'
<1>1. /\ book' = book
      /\ \A k \in Keys : staged'[a][k] = <<>>
      /\ \A b \in Actors : b # a => staged'[b] = staged[b] /\ pc'[b] = pc[b] /\ row'[b] = row[b]
      /\ pc'[a] # "insert"
  BY ForgetType DEF Rollback, tables, NoRows, TypeInv, TypeOK
<1>2. VersionChain'
  BY <1>1 DEF ChainInv, VersionChain
<1>3. OneWriterPerKey'
  <2> SUFFICES ASSUME NEW b \in Actors, NEW c \in Actors, NEW k \in Keys, b # c
               PROVE  staged'[b][k] = <<>> \/ staged'[c][k] = <<>>
    BY DEF OneWriterPerKey
  <2>1. CASE b = a \/ c = a
    BY <1>1, <2>1
  <2>2. CASE b # a /\ c # a
    BY <1>1, <2>2 DEF ChainInv, OneWriterPerKey
  <2>3. QED
    BY <2>1, <2>2
<1>4. StagedExtends'
  <2> SUFFICES ASSUME NEW b \in Actors, NEW k \in Keys, NEW n \in DOMAIN staged'[b][k]
               PROVE  /\ staged'[b][k][n].version = Len(book'[k]) + n
                      /\ staged'[b][k][n].restates = Len(book'[k]) + n - 1
    BY DEF StagedExtends
  <2>1. staged'[b][k] # <<>>
    OBVIOUS
  <2>2. staged'[b] = staged[b]
    BY <1>1, <2>1
  <2>3. QED
    BY <1>1, <2>2 DEF ChainInv, StagedExtends
<1>5. RowIsBehind'
  BY <1>1 DEF ChainInv, RowIsBehind
<1>6. QED
  BY <1>2, <1>3, <1>4, <1>5 DEF ChainInv

(* The empty book is a chain. *)
LEMMA InitChain == Init => ChainInv
  BY DEF Init, NoRows, ChainInv, VersionChain, OneWriterPerKey, StagedExtends, RowIsBehind

(* Every step keeps the chain: only inserts and commits touch rows.        *)
LEMMA StepChain == TypeInv /\ ChainInv /\ [Next]_vars => ChainInv'
<1> SUFFICES ASSUME TypeInv, ChainInv, [Next]_vars PROVE ChainInv'
  OBVIOUS
<1>0. Jobs \subseteq Actors /\ Reviewers \subseteq Actors /\ TypeOK /\ LocalOK
      /\ pc \in [Actors -> {"idle", "proposal", "select", "insert", "commit", "done"}]
  BY DEF Actors, TypeInv, TypeOK
<1>1. ASSUME NEW j \in Jobs, ParseBegin(j) PROVE ChainInv'
  <2>1. UNCHANGED <<book, staged, row>> /\ pc' = [pc EXCEPT ![j] = "proposal"]
    BY <1>1 DEF ParseBegin, tables
  <2>2. QED
    BY <1>0, <2>1, QuietChain
<1>2. ASSUME NEW j \in Jobs, ParseProposal(j) PROVE ChainInv'
  <2> DEFINE n == Len(decided[j]) + 1
  <2>1. /\ doc[j] \in Docs /\ n \in 1..Len(Extract[doc[j]]) /\ n \in 1..MaxProposals
        /\ Extract[doc[j]][n] \in Proposal
    BY <1>0, <1>2, MetricBookAssumption DEF ParseProposal, TypeOK, LocalOK, JobOK
  <2>2. PICK p \in LedgerApplied(ledger[j], Extract[doc[j]][n]) :
          \/ UNCHANGED <<pc, row>>
          \/ /\ ShouldAutoConfirm(p, doc[j])
             /\ pc' = [pc EXCEPT ![j] = "insert"]
             /\ Select(j, p.key, p.value, p.unit, <<j, n>>)
    BY <1>2 DEF ParseProposal
  <2>3. p \in Proposal
    BY <1>0, <2>1, <2>2, LedgerAppliedType DEF TypeOK
  <2>4. UNCHANGED <<book, staged>>
    BY <1>2 DEF ParseProposal, tables
  <2>5. CASE UNCHANGED <<pc, row>>
    BY <2>4, <2>5, QuietChain
  <2>6. CASE /\ ShouldAutoConfirm(p, doc[j])
             /\ pc' = [pc EXCEPT ![j] = "insert"]
             /\ Select(j, p.key, p.value, p.unit, <<j, n>>)
    <3>1. p.key \in Keys /\ p.value \in Values /\ p.unit \in Units /\ <<j, n>> \in Items
      BY <2>1, <2>3, <2>6 DEF ShouldAutoConfirm, Proposal, Items
    <3>2. \A b \in Actors : b # j => pc'[b] = pc[b]
      BY <1>0, <2>6
    <3>3. QED
      BY <1>0, <2>4, <2>6, <3>1, <3>2, SelectChain
  <2>7. QED
    BY <2>2, <2>5, <2>6
<1>3. ASSUME NEW j \in Jobs, ParseAutoInsert(j) PROVE ChainInv'
  <2>1. /\ pc[j] = "insert" /\ Insert(j) /\ UNCHANGED <<book, row>>
        /\ pc' = [pc EXCEPT ![j] = "proposal"]
    BY <1>3 DEF ParseAutoInsert, tables
  <2>2. \A b \in Actors : pc'[b] = "insert" => pc[b] = "insert" /\ b # j
    BY <1>0, <2>1
  <2>3. QED
    BY <1>0, <2>1, <2>2, InsertChain
<1>4. ASSUME NEW j \in Jobs, ParseCommit(j) PROVE ChainInv'
  BY <1>0, <1>4, PublishChain DEF ParseCommit
<1>5. ASSUME NEW r \in Reviewers, NEW i \in Items, NEW patch \in Patches, ConfirmBegin(r, i, patch)
      PROVE  ChainInv'
  <2>1. UNCHANGED <<book, staged, row>> /\ pc' = [pc EXCEPT ![r] = "select"]
    BY <1>5 DEF ConfirmBegin, tables
  <2>2. QED
    BY <1>0, <2>1, QuietChain
<1>6. ASSUME NEW r \in Reviewers, ConfirmSelect(r) PROVE ChainInv'
  <2> DEFINE i == review[r].item
             patch == review[r].patch
             p == proposed[i]
  <2>1. /\ i \in Items /\ p \in Proposal /\ patch \in Patches
        /\ BookedKey(patch, p) \in Keys
    BY <1>0, <1>6 DEF ConfirmSelect, LocalOK, ReviewOK
  <2>2. BookedValue(patch, p) \in Values /\ BookedUnit(patch, p) \in Units
    BY <2>1, BookedType
  <2>3. /\ Select(r, BookedKey(patch, p), BookedValue(patch, p), BookedUnit(patch, p), i)
        /\ pc' = [pc EXCEPT ![r] = "insert"] /\ UNCHANGED <<book, staged>>
    BY <1>6 DEF ConfirmSelect, tables
  <2>4. \A b \in Actors : b # r => pc'[b] = pc[b]
    BY <1>0, <2>3
  <2>5. QED
    BY <1>0, <2>1, <2>2, <2>3, <2>4, SelectChain
<1>7. ASSUME NEW r \in Reviewers, ConfirmInsert(r) PROVE ChainInv'
  <2>1. /\ pc[r] = "insert" /\ Insert(r) /\ UNCHANGED <<book, row>>
        /\ pc' = [pc EXCEPT ![r] = "commit"]
    BY <1>7 DEF ConfirmInsert, tables
  <2>2. \A b \in Actors : pc'[b] = "insert" => pc[b] = "insert" /\ b # r
    BY <1>0, <2>1
  <2>3. QED
    BY <1>0, <2>1, <2>2, InsertChain
<1>8. ASSUME NEW r \in Reviewers, ConfirmCommit(r) PROVE ChainInv'
  BY <1>0, <1>8, PublishChain DEF ConfirmCommit
<1>9. ASSUME NEW a \in Actors, Rollback(a) PROVE ChainInv'
  BY <1>9, RollbackChain
<1>10. ASSUME NEW i \in Items, Reject(i) PROVE ChainInv'
  BY <1>10, QuietChain DEF Reject
<1>11. CASE UNCHANGED vars
  BY <1>11, QuietChain DEF vars, tables
<1>12. QED
  BY <1>1, <1>2, <1>3, <1>4, <1>5, <1>6, <1>7, <1>8, <1>9, <1>10, <1>11 DEF Next, Parse, Confirm
-----------------------------------------------------------------------------
(* Types and the chain of versions hold together in every state.           *)
LEMMA Safety == Spec => [](TypeInv /\ ChainInv)
<1>1. Init => TypeInv /\ ChainInv
  BY InitType, InitChain
<1>2. TypeInv /\ ChainInv /\ [Next]_vars => (TypeInv /\ ChainInv)'
  BY StepType, StepChain
<1>3. QED
  BY <1>1, <1>2, PTL DEF Spec

(* The state is well typed in every reachable state: figures booked by a   *)
(* job or a confirm are figures, whichever of patch, proposal and ledger   *)
(* they come from.                                                         *)
THEOREM TypeCorrect == Spec => []TypeOK
<1>1. TypeInv /\ ChainInv => TypeOK
  BY DEF TypeInv
<1>2. QED
  BY <1>1, Safety, PTL

(* The versions of every figure are 1, 2, 3 ... and each restates the one  *)
(* before, however many parses and confirms overlap (routes.ts confirm,    *)
(* writeAutoMetric, metric_values_version_uidx).                           *)
THEOREM VersionsNeverFork == Spec => []VersionChain
<1>1. TypeInv /\ ChainInv => VersionChain
  BY DEF ChainInv
<1>2. QED
  BY <1>1, Safety, PTL

(* Two transactions never both hold uncommitted rows of one figure: the    *)
(* unique index serialises the writers of a figure without a row lock.     *)
THEOREM WritersTakeTurns == Spec => []OneWriterPerKey
<1>1. TypeInv /\ ChainInv => OneWriterPerKey
  BY DEF ChainInv
<1>2. QED
  BY <1>1, Safety, PTL
-----------------------------------------------------------------------------
(* The items the transaction of a decides when it commits.                 *)
Own(a) ==
  IF a \in Jobs
  THEN {<<a, n>> : n \in {m \in DOMAIN decided[a] : decided[a][m].status = "confirmed"}}
  ELSE {review[a].item}

(* Every row, committed or not, comes from an item that is decided with it;*)
(* a transaction that has not inserted yet holds no rows.                  *)
BookedDecided == \A k \in Keys : \A n \in DOMAIN book[k] : book[k][n].item \in Decided
StagedDecided ==
  \A a \in Actors, k \in Keys : \A n \in DOMAIN staged[a][k] : staged[a][k][n].item \in Own(a)
RowDecided == \A a \in Actors : pc[a] = "insert" => row[a].fact.item \in Own(a)
NothingHeld ==
  \A a \in Actors, k \in Keys : pc[a] \in {"idle", "select", "done"} => staged[a][k] = <<>>

SourceInv == BookedDecided /\ StagedDecided /\ RowDecided /\ NothingHeld

(* A commit marks the items of its transaction as decided.                 *)
LEMMA CommitDecides ==
  ASSUME TypeInv, NEW a \in Actors,
         (a \in Jobs /\ ParseCommit(a)) \/ (a \in Reviewers /\ ConfirmCommit(a)), NEW i \in Items, i \in Own(a)
  PROVE  i \in Decided'
<1>0. Jobs \cap Reviewers = {} /\ Actors = Jobs \cup Reviewers
  BY MetricBookAssumption DEF Actors
<1>1. CASE a \in Jobs
  <2>1. PICK n \in DOMAIN decided[a] : i = <<a, n>> /\ decided[a][n].status = "confirmed"
    BY <1>0, <1>1 DEF Own
  <2>2. ParseCommit(a)
    BY <1>0, <1>1
  <2>3. inbox'[i] = decided[a][i[2]].status
    BY <2>1, <2>2 DEF ParseCommit
  <2>4. QED
    BY <2>1, <2>3 DEF Decided
<1>2. CASE a \in Reviewers
  <2>1. i = review[a].item /\ ConfirmCommit(a)
    BY <1>0, <1>2 DEF Own
  <2>2. inbox'[i] \in {"edited", "confirmed"}
    BY <2>1 DEF ConfirmCommit, TypeInv, TypeOK
  <2>3. QED
    BY <2>2 DEF Decided
<1>3. QED
  BY <1>0, <1>1, <1>2

(* A decided item stays decided: reject and confirm overwrite each other's *)
(* status, but nothing returns an item to review.                          *)
LEMMA DecidedGrows == TypeInv /\ [Next]_vars => Decided \subseteq Decided'
<1> SUFFICES ASSUME TypeInv, TypeOK, LocalOK, [Next]_vars, NEW i \in Decided PROVE i \in Decided'
  BY DEF TypeInv
<1>0. i \in Items /\ inbox[i] \in {"confirmed", "edited", "rejected"}
  BY DEF Decided
<1> SUFFICES inbox'[i] \in {"confirmed", "edited", "rejected"}
  BY <1>0 DEF Decided
<1>1. CASE inbox' = inbox
  BY <1>0, <1>1
<1>2. ASSUME NEW j \in Jobs, ParseCommit(j)
      PROVE  inbox'[i] \in {"confirmed", "edited", "rejected"}
  <2>1. i \notin {<<j, n>> : n \in DOMAIN decided[j]}
    BY <1>0, <1>2 DEF ParseCommit, LocalOK, Unseen, Items
  <2>2. QED
    BY <1>0, <1>2, <2>1 DEF ParseCommit
<1>3. ASSUME NEW r \in Reviewers, ConfirmCommit(r)
      PROVE  inbox'[i] \in {"confirmed", "edited", "rejected"}
  BY <1>0, <1>3 DEF ConfirmCommit, TypeOK
<1>4. ASSUME NEW l \in Items, Reject(l)
      PROVE  inbox'[i] \in {"confirmed", "edited", "rejected"}
  BY <1>0, <1>4 DEF Reject, TypeOK
<1>5. QED
  BY <1>1, <1>2, <1>3, <1>4 DEF Next, Parse, Confirm, ParseBegin, ParseProposal, ParseAutoInsert,
     ConfirmBegin, ConfirmSelect, ConfirmInsert, Rollback, tables, vars

(* A reported row stays where it is.                                       *)
LEMMA BookGrows ==
  ASSUME TypeInv, [Next]_vars, NEW k \in Keys, NEW n \in DOMAIN book[k]
  PROVE  n \in DOMAIN book'[k] /\ book'[k][n] = book[k][n]
<1>1. CASE book' = book
  BY <1>1
<1>2. ASSUME NEW a \in Actors, Publish(a) PROVE n \in DOMAIN book'[k] /\ book'[k][n] = book[k][n]
  <2>1. book[k] \in Seq(Fact) /\ staged[a][k] \in Seq(Fact) /\ book'[k] = book[k] \o staged[a][k]
    BY <1>2 DEF Publish, TypeInv, TypeOK
  <2>2. \A t, u \in Seq(Fact) : \A m \in DOMAIN t : m \in DOMAIN (t \o u) /\ (t \o u)[m] = t[m]
    OBVIOUS
  <2>3. QED
    BY <2>1, <2>2
<1>3. QED
  BY <1>1, <1>2 DEF Next, Parse, Confirm, ParseBegin, ParseProposal, ParseAutoInsert, ParseCommit,
     ConfirmBegin, ConfirmSelect, ConfirmInsert, ConfirmCommit, Rollback, Reject, tables, vars, Actors

(* Rows inserted so far, and the one to insert, keep their decided items.  *)
LEMMA StepSource == TypeInv /\ ChainInv /\ SourceInv /\ [Next]_vars => SourceInv'
<1> SUFFICES ASSUME TypeInv, TypeOK, LocalOK, ChainInv, SourceInv, [Next]_vars PROVE SourceInv'
  BY DEF TypeInv
<1>0. Jobs \subseteq Actors /\ Reviewers \subseteq Actors /\ Jobs \cap Reviewers = {}
      /\ Actors = Jobs \cup Reviewers
  BY MetricBookAssumption DEF Actors
<1>a. ASSUME book' = book PROVE BookedDecided'
  BY <1>a, DecidedGrows DEF SourceInv, BookedDecided
<1>1. ASSUME NEW j \in Jobs, ParseBegin(j) PROVE SourceInv'
  <2>1. /\ UNCHANGED <<book, staged, row, decided, review>>
        /\ pc' = [pc EXCEPT ![j] = "proposal"]
    BY <1>1 DEF ParseBegin, tables
  <2>2. StagedDecided' /\ RowDecided' /\ NothingHeld'
    BY <1>0, <2>1 DEF SourceInv, StagedDecided, RowDecided, NothingHeld, Own, TypeOK
  <2>3. QED
    BY <1>a, <2>1, <2>2 DEF SourceInv
<1>2. ASSUME NEW j \in Jobs, ParseProposal(j) PROVE SourceInv'
  <2> DEFINE n == Len(decided[j]) + 1
  <2>1. /\ doc[j] \in Docs /\ n \in 1..Len(Extract[doc[j]]) /\ n \in 1..MaxProposals
        /\ Extract[doc[j]][n] \in Proposal /\ decided[j] \in Seq(Entry)
    BY <1>0, <1>2, MetricBookAssumption DEF ParseProposal, TypeOK, LocalOK, JobOK
  <2>2. PICK p \in LedgerApplied(ledger[j], Extract[doc[j]][n]) :
          \/ /\ decided' = [decided EXCEPT ![j] = Append(@, [status |-> "pending", prop |-> p])]
             /\ UNCHANGED <<pc, row>>
          \/ /\ ShouldAutoConfirm(p, doc[j])
             /\ decided' = [decided EXCEPT ![j] = Append(@, [status |-> "confirmed", prop |-> p])]
             /\ pc' = [pc EXCEPT ![j] = "insert"]
             /\ Select(j, p.key, p.value, p.unit, <<j, n>>)
    BY <1>2 DEF ParseProposal
  <2>3. p \in Proposal
    BY <2>1, <2>2, LedgerAppliedType DEF TypeOK
  <2>4. UNCHANGED <<book, staged, review>> /\ pc[j] = "proposal"
    BY <1>2 DEF ParseProposal, tables
  <2>5. PICK e \in Entry : decided' = [decided EXCEPT ![j] = Append(@, e)]
    BY <2>2, <2>3 DEF Entry
  <2>6. /\ decided'[j] = Append(decided[j], e)
        /\ \A h \in Jobs : h # j => decided'[h] = decided[h]
    BY <2>5 DEF TypeOK
  <2>7. \A m \in DOMAIN decided[j] : m \in DOMAIN decided'[j] /\ decided'[j][m] = decided[j][m]
    BY <2>1, <2>6
  <2>8. ASSUME NEW b \in Actors PROVE Own(b) \subseteq Own(b)'
    BY <1>0, <2>4, <2>6, <2>7 DEF Own
  <2>9. StagedDecided' /\ NothingHeld'
    BY <1>0, <2>2, <2>4, <2>8 DEF SourceInv, StagedDecided, NothingHeld, TypeOK
  <2>10. RowDecided'
    <3>1. CASE UNCHANGED <<pc, row>>
      BY <2>8, <3>1 DEF SourceInv, RowDecided
    <3>2. CASE /\ ShouldAutoConfirm(p, doc[j])
               /\ decided' = [decided EXCEPT ![j] = Append(@, [status |-> "confirmed", prop |-> p])]
               /\ pc' = [pc EXCEPT ![j] = "insert"]
               /\ Select(j, p.key, p.value, p.unit, <<j, n>>)
      <4>1. p.key \in Keys /\ p.value \in Values /\ p.unit \in Units /\ <<j, n>> \in Items
        BY <2>1, <2>3, <3>2 DEF ShouldAutoConfirm, Proposal, Items
      <4>2. \A b \in Actors : b # j => row'[b] = row[b]
        BY <1>0, <3>2, <4>1, SelectType
      <4>3. decided'[j] = Append(decided[j], [status |-> "confirmed", prop |-> p])
        BY <3>2 DEF TypeOK
      <4>4. \A t, x : t \in Seq(Entry) =>
              Len(t) + 1 \in DOMAIN Append(t, x) /\ Append(t, x)[Len(t) + 1] = x
        OBVIOUS
      <4>5. n \in DOMAIN decided'[j] /\ decided'[j][n].status = "confirmed"
        BY <2>1, <4>3, <4>4
      <4>6. <<j, n>> \in Own(j)'
        BY <4>5 DEF Own
      <4>9. row'[j].fact.item \in Own(j)'
        BY <1>0, <3>2, <4>6, SelectItem
      <4>7. \A b \in Actors : b # j => pc'[b] = pc[b]
        BY <3>2 DEF TypeOK
      <4>8. QED
        BY <2>8, <4>2, <4>7, <4>9 DEF SourceInv, RowDecided
    <3>3. QED
      BY <2>2, <3>1, <3>2
  <2>11. QED
    BY <1>a, <2>4, <2>9, <2>10 DEF SourceInv
<1>3. ASSUME NEW a \in Actors, pc[a] = "insert", Insert(a), pc'[a] \in {"proposal", "commit"},
             UNCHANGED <<book, row, decided, review>>, \A b \in Actors : b # a => pc'[b] = pc[b]
      PROVE  SourceInv'
  <2> DEFINE k == row[a].key
             f == row[a].fact
  <2>1. k \in Keys /\ f \in Fact /\ f.item \in Own(a)
    BY <1>3 DEF LocalOK, SourceInv, RowDecided
  <2>2. /\ staged'[a][k] = Append(staged[a][k], f)
        /\ \A b \in Actors, l \in Keys : b # a \/ l # k => staged'[b][l] = staged[b][l]
    BY <1>3, <2>1 DEF Insert, TypeOK
  <2>3. staged[a][k] \in Seq(Fact)
    BY <2>1 DEF TypeOK
  <2> HIDE DEF k, f
  <2>4. \A b \in Actors : Own(b)' = Own(b)
    BY <1>3 DEF Own
  <2>5. ASSUME NEW b \in Actors, NEW l \in Keys, NEW m \in DOMAIN staged'[b][l]
        PROVE  staged'[b][l][m].item \in Own(b)'
    <3>1. CASE b = a /\ l = k
      <4>1. staged'[b][l] = Append(staged[a][k], f)
        BY <2>2, <3>1
      <4>2. \/ staged'[b][l][m] = f
            \/ m \in DOMAIN staged[a][k] /\ staged'[b][l][m] = staged[a][k][m]
        BY <2>1, <2>3, <2>5, <4>1, AppendElement
      <4>3. QED
        BY <2>1, <2>4, <3>1, <4>2 DEF SourceInv, StagedDecided
    <3>2. CASE b # a \/ l # k
      <4>1. staged'[b][l] = staged[b][l]
        BY <2>2, <3>2
      <4>2. m \in DOMAIN staged[b][l]
        BY <4>1
      <4>3. QED
        BY <2>4, <4>1, <4>2 DEF SourceInv, StagedDecided
    <3>3. QED
      BY <3>1, <3>2
  <2>6. StagedDecided'
    BY <2>5 DEF StagedDecided
  <2>7. RowDecided' /\ NothingHeld'
    BY <1>3, <2>2, <2>4 DEF SourceInv, RowDecided, NothingHeld
  <2>8. QED
    BY <1>3, <1>a, <2>6, <2>7 DEF SourceInv
<1>4. ASSUME NEW a \in Actors, Publish(a), Forget(a), decided' = decided,
             (a \in Jobs /\ ParseCommit(a)) \/ (a \in Reviewers /\ ConfirmCommit(a))
      PROVE  SourceInv'
  <2>1. \A k \in Keys : book'[k] = book[k] \o staged[a][k] /\ staged'[a][k] = <<>>
    BY <1>4 DEF Publish, NoRows, TypeOK
  <2>2. /\ \A b \in Actors : b # a => staged'[b] = staged[b] /\ pc'[b] = pc[b] /\ row'[b] = row[b]
        /\ \A r \in Reviewers : r # a => review'[r] = review[r]
        /\ pc'[a] \in {"idle", "done"}
    BY <1>4, ForgetType DEF Publish, TypeOK
  <2>3. ASSUME NEW b \in Actors, b # a PROVE Own(b)' = Own(b)
    BY <1>0, <1>4, <2>2, <2>3 DEF Own
  <2>4. ASSUME NEW k \in Keys, NEW n \in DOMAIN book'[k] PROVE book'[k][n].item \in Decided'
    <3>1. book[k] \in Seq(Fact) /\ staged[a][k] \in Seq(Fact)
      BY DEF TypeOK
    <3>2. book'[k] = book[k] \o staged[a][k] /\ n \in DOMAIN (book[k] \o staged[a][k])
      BY <2>1, <2>4
    <3>3. \/ n \in DOMAIN book[k] /\ book'[k][n] = book[k][n]
          \/ \E m \in DOMAIN staged[a][k] : book'[k][n] = staged[a][k][m]
      BY <3>1, <3>2, ConcatElement
    <3>4. CASE n \in DOMAIN book[k] /\ book'[k][n] = book[k][n]
      BY <3>4, DecidedGrows DEF SourceInv, BookedDecided
    <3>5. CASE \E m \in DOMAIN staged[a][k] : book'[k][n] = staged[a][k][m]
      <4>1. PICK m \in DOMAIN staged[a][k] : book'[k][n] = staged[a][k][m]
        BY <3>5
      <4>2. staged[a][k][m].item \in Own(a) /\ staged[a][k][m] \in Fact
        BY <3>1, <4>1 DEF SourceInv, StagedDecided
      <4>3. staged[a][k][m].item \in Items
        BY <4>2 DEF Fact
      <4>4. QED
        BY <1>4, <4>1, <4>2, <4>3, CommitDecides
    <3>6. QED
      BY <3>3, <3>4, <3>5
  <2>5. BookedDecided'
    BY <2>4 DEF BookedDecided
  <2>6. ASSUME NEW b \in Actors, NEW k \in Keys, NEW n \in DOMAIN staged'[b][k]
        PROVE  staged'[b][k][n].item \in Own(b)'
    <3>1. staged'[b][k] # <<>>
      BY <2>6
    <3>2. b # a
      BY <2>1, <3>1
    <3>3. staged'[b] = staged[b]
      BY <2>2, <3>2
    <3>4. staged[b][k][n].item \in Own(b) /\ staged'[b][k][n] = staged[b][k][n]
      BY <3>3 DEF SourceInv, StagedDecided
    <3>5. QED
      BY <2>3, <3>2, <3>4
  <2>7. StagedDecided'
    BY <2>6 DEF StagedDecided
  <2>8. RowDecided'
    BY <2>2, <2>3 DEF SourceInv, RowDecided
  <2>9. NothingHeld'
    BY <2>1, <2>2 DEF SourceInv, NothingHeld
  <2>10. QED
    BY <2>5, <2>7, <2>8, <2>9 DEF SourceInv
<1>5. ASSUME NEW r \in Reviewers, NEW i \in Items, NEW patch \in Patches, ConfirmBegin(r, i, patch)
      PROVE  SourceInv'
  <2>1. /\ UNCHANGED <<book, staged, row, decided>> /\ pc[r] = "idle"
        /\ pc' = [pc EXCEPT ![r] = "select"]
        /\ \A b \in Reviewers : b # r => review'[b] = review[b]
    BY <1>5 DEF ConfirmBegin, tables, jobVars, TypeOK
  <2>2. \A b \in Actors : b # r => pc'[b] = pc[b]
    BY <2>1 DEF TypeOK
  <2>3. ASSUME NEW b \in Actors, b # r PROVE Own(b)' = Own(b)
    BY <1>0, <2>1, <2>3 DEF Own
  <2>4. pc'[r] = "select" /\ \A k \in Keys : staged'[r][k] = <<>>
    BY <1>0, <2>1 DEF SourceInv, NothingHeld, TypeOK
  <2>5. StagedDecided' /\ RowDecided' /\ NothingHeld'
    BY <2>1, <2>2, <2>3, <2>4 DEF SourceInv, StagedDecided, RowDecided, NothingHeld
  <2>6. QED
    BY <1>a, <2>1, <2>5 DEF SourceInv
<1>6. ASSUME NEW r \in Reviewers, ConfirmSelect(r) PROVE SourceInv'
  <2> DEFINE i == review[r].item
             patch == review[r].patch
             p == proposed[i]
  <2>1. /\ i \in Items /\ p \in Proposal /\ patch \in Patches
        /\ BookedKey(patch, p) \in Keys
    BY <1>6 DEF ConfirmSelect, LocalOK, ReviewOK
  <2>2. BookedValue(patch, p) \in Values /\ BookedUnit(patch, p) \in Units
    BY <2>1, BookedType
  <2>a. Select(r, BookedKey(patch, p), BookedValue(patch, p), BookedUnit(patch, p), i)
    BY <1>6 DEF ConfirmSelect
  <2> HIDE DEF i, patch, p
  <2>3. \A b \in Actors : b # r => row'[b] = row[b]
    BY <1>0, <2>1, <2>2, <2>a, SelectType
  <2>4. /\ UNCHANGED <<book, staged, decided, review>> /\ i = review[r].item
        /\ pc' = [pc EXCEPT ![r] = "insert"]
    BY <1>6 DEF ConfirmSelect, tables, jobVars, i
  <2>5. \A b \in Actors : Own(b)' = Own(b)
    BY <2>4 DEF Own
  <2>6. i \in Own(r) /\ \A b \in Actors : b # r => pc'[b] = pc[b]
    BY <1>0, <2>4 DEF Own, TypeOK
  <2>b. row'[r].fact.item \in Own(r)
    BY <1>0, <2>6, <2>a, SelectItem
  <2>7. StagedDecided' /\ RowDecided'
    BY <2>3, <2>4, <2>5, <2>6, <2>b DEF SourceInv, StagedDecided, RowDecided
  <2>8. NothingHeld'
    BY <1>0, <2>4 DEF SourceInv, NothingHeld, TypeOK
  <2>9. QED
    BY <1>a, <2>4, <2>7, <2>8 DEF SourceInv
<1>7. ASSUME NEW a \in Actors, Rollback(a) PROVE SourceInv'
  <2>1. /\ UNCHANGED <<book, decided>> /\ \A k \in Keys : staged'[a][k] = <<>>
        /\ \A b \in Actors : b # a => staged'[b] = staged[b] /\ pc'[b] = pc[b] /\ row'[b] = row[b]
        /\ \A r \in Reviewers : r # a => review'[r] = review[r]
        /\ pc'[a] \in {"idle", "done"}
    BY <1>7, ForgetType DEF Rollback, tables, jobVars, NoRows, TypeOK
  <2>2. ASSUME NEW b \in Actors, b # a PROVE Own(b)' = Own(b)
    BY <1>0, <2>1, <2>2 DEF Own
  <2>3. StagedDecided' /\ RowDecided' /\ NothingHeld'
    BY <2>1, <2>2 DEF SourceInv, StagedDecided, RowDecided, NothingHeld
  <2>4. QED
    BY <1>a, <2>1, <2>3 DEF SourceInv
<1>8. CASE UNCHANGED <<book, pc, staged, row, decided, review>>
  <2>1. StagedDecided' /\ RowDecided' /\ NothingHeld'
    BY <1>8 DEF SourceInv, StagedDecided, RowDecided, NothingHeld, Own
  <2>2. QED
    BY <1>8, <1>a, <2>1 DEF SourceInv
<1>9. ASSUME NEW j \in Jobs, ParseAutoInsert(j) PROVE SourceInv'
  <2>1. /\ pc[j] = "insert" /\ Insert(j) /\ pc' = [pc EXCEPT ![j] = "proposal"]
        /\ UNCHANGED <<book, row, decided, review>>
    BY <1>9 DEF ParseAutoInsert, tables, jobVars
  <2>2. pc'[j] = "proposal" /\ \A b \in Actors : b # j => pc'[b] = pc[b]
    BY <1>0, <2>1 DEF TypeOK
  <2>3. QED
    BY <1>0, <1>3, <2>1, <2>2
<1>10. ASSUME NEW r \in Reviewers, ConfirmInsert(r) PROVE SourceInv'
  <2>1. /\ pc[r] = "insert" /\ Insert(r) /\ pc' = [pc EXCEPT ![r] = "commit"]
        /\ UNCHANGED <<book, row, decided, review>>
    BY <1>10 DEF ConfirmInsert, tables, jobVars
  <2>2. pc'[r] = "commit" /\ \A b \in Actors : b # r => pc'[b] = pc[b]
    BY <1>0, <2>1 DEF TypeOK
  <2>3. QED
    BY <1>0, <1>3, <2>1, <2>2
<1>11. ASSUME NEW j \in Jobs, ParseCommit(j) PROVE SourceInv'
  BY <1>0, <1>4, <1>11 DEF ParseCommit, jobVars
<1>12. ASSUME NEW r \in Reviewers, ConfirmCommit(r) PROVE SourceInv'
  BY <1>0, <1>4, <1>12 DEF ConfirmCommit, jobVars
<1>13. ASSUME NEW i \in Items, Reject(i) PROVE SourceInv'
  BY <1>8, <1>13 DEF Reject, jobVars
<1>14. CASE UNCHANGED vars
  BY <1>8, <1>14 DEF vars, tables, jobVars
<1>15. QED
  BY <1>1, <1>2, <1>5, <1>6, <1>7, <1>9, <1>10, <1>11, <1>12, <1>13, <1>14 DEF Next, Parse, Confirm

(* In the empty book every figure comes from a decided item.               *)
LEMMA InitSource == Init => SourceInv
  BY DEF Init, NoRows, SourceInv, BookedDecided, StagedDecided, RowDecided, NothingHeld

-----------------------------------------------------------------------------
(* The facts of a key as the promise sees them.                            *)
History == [k \in Keys |-> [n \in DOMAIN book[k] |->
              [value |-> book[k][n].value, item |-> book[k][n].item]]]

(* The empty book is the empty promise.                                    *)
LEMMA InitRefines == Init => Promise!Init
<1> SUFFICES ASSUME Init PROVE Promise!Init
  OBVIOUS
<1>1. ASSUME NEW k \in Keys
      PROVE  [n \in DOMAIN book[k] |-> [value |-> book[k][n].value, item |-> book[k][n].item]] = <<>>
  <2>1. book[k] = <<>> /\ DOMAIN <<>> = {}
    BY DEF Init, NoRows
  <2>2. QED
    BY <2>1
<1>2. History = [k \in Keys |-> <<>>]
  BY <1>1 DEF History
<1>3. Decided = {}
  BY DEF Init, Decided
<1>4. QED
  BY <1>2, <1>3 DEF Promise!Init, History

(* Every step only adds restatements and decides items.                    *)
LEMMA StepRefines ==
  ASSUME TypeInv, SourceInv', [Next]_vars
  PROVE  Promise!Report
<1>1. DOMAIN History' = Keys
  BY DEF History
<1>2. ASSUME NEW k \in Keys
      PROVE  /\ Promise!Keeps(History[k], History'[k])
             /\ \A n \in DOMAIN History'[k] : History'[k][n].item \in Decided'
  <2>1. /\ DOMAIN History[k] = DOMAIN book[k] /\ DOMAIN History'[k] = DOMAIN book'[k]
        /\ \A n \in DOMAIN book[k] :
             History[k][n] = [value |-> book[k][n].value, item |-> book[k][n].item]
        /\ \A n \in DOMAIN book'[k] :
             History'[k][n] = [value |-> book'[k][n].value, item |-> book'[k][n].item]
    BY DEF History
  <2>2. Promise!Keeps(History[k], History'[k])
    BY <2>1, BookGrows DEF Promise!Keeps
  <2>3. ASSUME NEW n \in DOMAIN History'[k] PROVE History'[k][n].item \in Decided'
    <3>1. n \in DOMAIN book'[k] /\ book'[k][n].item \in Decided'
      BY <2>1, <2>3 DEF SourceInv, BookedDecided
    <3>2. History'[k][n] = [value |-> book'[k][n].value, item |-> book'[k][n].item]
      BY <2>1, <3>1
    <3>3. History'[k][n].item = book'[k][n].item
      BY <3>2
    <3>4. QED
      BY <3>1, <3>3
  <2>4. QED
    BY <2>2, <2>3
<1>3. Decided \subseteq Decided' /\ Decided' \subseteq Items
  BY DecidedGrows DEF Decided
<1>4. QED
  BY <1>1, <1>2, <1>3 DEF Promise!Report, History

(* The book implements the promise of RestatementLedger: a reported figure *)
(* stays, later ones are appended, and every one is of a decided item,     *)
(* through every overlap of parses, confirms, rejects and rollbacks.       *)
THEOREM BookKeepsPromise == Spec => KeepsPromise
<1>1. Init => TypeInv /\ ChainInv /\ SourceInv
  BY InitType, InitChain, InitSource
<1>2. TypeInv /\ ChainInv /\ SourceInv /\ [Next]_vars => (TypeInv /\ ChainInv /\ SourceInv)'
  BY StepType, StepChain, StepSource
<1>3. Init => Promise!Init
  BY InitRefines
<1>4. TypeInv /\ SourceInv' /\ [Next]_vars => Promise!Report
  BY StepRefines
<1>5. QED
  BY <1>1, <1>2, <1>3, <1>4, PTL DEF Spec, KeepsPromise, Promise!Spec
-----------------------------------------------------------------------------
(* What the open transactions will have written when they commit.  A row   *)
(* carries the name of its transaction, and that of a reviewer the item    *)
(* under review; the job of a committed row is over, so the ledger it read *)
(* no longer changes.                                                      *)
RowIsOwn ==
  \A a \in Actors : pc[a] \in {"insert", "commit"} =>
    /\ row[a].fact.by = a
    /\ a \in Reviewers => row[a].fact.item = review[a].item
StagedIsOwn == \A a \in Actors, k \in Keys : \A n \in DOMAIN staged[a][k] : staged[a][k][n].by = a
BookedIsOver ==
  \A k \in Keys : \A n \in DOMAIN book[k] : book[k][n].by \in Jobs => pc[book[k][n].by] = "done"

WriterInv == RowIsOwn /\ StagedIsOwn /\ BookedIsOver

(* Some row among these is of the item. *)
Holds(rows, i) == \E k \in Keys : \E n \in DOMAIN rows[k] : rows[k][n].item = i

(* A reviewer about to commit has inserted its row; a job has inserted one *)
(* for every proposal it confirmed, except the one it is about to insert.  *)
ReviewerHolds ==
  \A r \in Reviewers : pc[r] = "commit" =>
    \E n \in DOMAIN staged[r][row[r].key] : staged[r][row[r].key][n] = row[r].fact
JobHolds ==
  \A j \in Jobs : \A n \in DOMAIN decided[j] :
    pc[j] # "done" /\ decided[j][n].status = "confirmed" =>
      \/ Holds(staged[j], <<j, n>>)
      \/ pc[j] = "insert" /\ row[j].fact.item = <<j, n>>

HeldInv == ReviewerHolds /\ JobHolds

(* A row of a job that read corrections of the key is one of them. *)
Reapplied(f, k) ==
  LET rows == {c \in Range(ledger[f.by]) : c.key = k}
  IN  f.by \in Jobs /\ rows # {} => \E c \in rows : f.value = c.value /\ f.unit = c.unit
RowReapplied == \A a \in Actors : pc[a] = "insert" => Reapplied(row[a].fact, row[a].key)
StagedReapplied ==
  \A a \in Actors, k \in Keys : \A n \in DOMAIN staged[a][k] : Reapplied(staged[a][k][n], k)

ReapplyInv == LedgerReapplied /\ StagedReapplied /\ RowReapplied

(* A request ends by publishing its rows: a parse, or a confirm.           *)
Commits(a) == (a \in Jobs /\ ParseCommit(a)) \/ (a \in Reviewers /\ ConfirmCommit(a))

(* An INSERT adds the prepared row to those of its transaction.            *)
LEMMA InsertAdds ==
  ASSUME TypeInv, NEW a \in Actors, pc[a] = "insert", Insert(a)
  PROVE  /\ row[a].key \in Keys
         /\ \A b \in Actors, k \in Keys : \A n \in DOMAIN staged[b][k] :
              n \in DOMAIN staged'[b][k] /\ staged'[b][k][n] = staged[b][k][n]
         /\ \E n \in DOMAIN staged'[a][row[a].key] : staged'[a][row[a].key][n] = row[a].fact
         /\ \A b \in Actors, k \in Keys : \A n \in DOMAIN staged'[b][k] :
              \/ n \in DOMAIN staged[b][k] /\ staged'[b][k][n] = staged[b][k][n]
              \/ b = a /\ k = row[a].key /\ staged'[b][k][n] = row[a].fact
<1> DEFINE l == row[a].key
           f == row[a].fact
<1>1. l \in Keys /\ f \in Fact
  BY DEF TypeInv, LocalOK
<1>2. /\ staged'[a][l] = Append(staged[a][l], f)
      /\ \A b \in Actors, k \in Keys : b # a \/ k # l => staged'[b][k] = staged[b][k]
  BY <1>1 DEF Insert, TypeInv, TypeOK
<1>3. staged[a][l] \in Seq(Fact)
  BY <1>1 DEF TypeInv, TypeOK
<1> HIDE DEF l, f
<1>4. ASSUME NEW t \in Seq(Fact), NEW y \in Fact
      PROVE  /\ \A n \in DOMAIN t : n \in DOMAIN Append(t, y) /\ Append(t, y)[n] = t[n]
             /\ Len(t) + 1 \in DOMAIN Append(t, y) /\ Append(t, y)[Len(t) + 1] = y
  BY AppendProperties
<1>5. ASSUME NEW b \in Actors, NEW k \in Keys, NEW n \in DOMAIN staged[b][k]
      PROVE  n \in DOMAIN staged'[b][k] /\ staged'[b][k][n] = staged[b][k][n]
  BY <1>1, <1>2, <1>3, <1>4
<1>6. \E n \in DOMAIN staged'[a][l] : staged'[a][l][n] = f
  BY <1>1, <1>2, <1>3, <1>4
<1>7. ASSUME NEW b \in Actors, NEW k \in Keys, NEW n \in DOMAIN staged'[b][k]
      PROVE  \/ n \in DOMAIN staged[b][k] /\ staged'[b][k][n] = staged[b][k][n]
             \/ b = a /\ k = l /\ staged'[b][k][n] = f
  <2>1. CASE b = a /\ k = l
    <3>1. n \in DOMAIN Append(staged[a][l], f)
      BY <1>2, <1>7, <2>1
    <3>2. QED
      BY <1>1, <1>2, <1>3, <2>1, <3>1, AppendElement
  <2>2. CASE b # a \/ k # l
    BY <1>2, <2>2
  <2>3. QED
    BY <2>1, <2>2
<1>8. QED
  BY <1>1, <1>5, <1>6, <1>7 DEF l, f

(* A commit puts the rows of its transaction in the book, where the rows   *)
(* already there stay, and leaves the rows of the others.                  *)
LEMMA CommitAdds ==
  ASSUME TypeInv, NEW a \in Actors, Commits(a)
  PROVE  /\ \A k \in Keys : staged'[a][k] = <<>>
         /\ \A b \in Actors : b # a =>
              staged'[b] = staged[b] /\ pc'[b] = pc[b] /\ row'[b] = row[b]
         /\ \A r \in Reviewers : r # a => review'[r] = review[r]
         /\ pc'[a] = IF a \in Jobs THEN "done" ELSE "idle"
         /\ \A k \in Keys : \A m \in DOMAIN staged[a][k] :
              \E n \in DOMAIN book'[k] : book'[k][n] = staged[a][k][m]
         /\ \A k \in Keys : \A n \in DOMAIN book'[k] :
              \/ n \in DOMAIN book[k] /\ book'[k][n] = book[k][n]
              \/ \E m \in DOMAIN staged[a][k] : book'[k][n] = staged[a][k][m]
<1>1. Publish(a) /\ Forget(a) /\ TypeOK
  BY DEF Commits, ParseCommit, ConfirmCommit, TypeInv
<1>2. \A k \in Keys : book'[k] = book[k] \o staged[a][k] /\ staged'[a][k] = <<>>
  BY <1>1 DEF Publish, NoRows, TypeOK
<1>3. \A b \in Actors : b # a => staged'[b] = staged[b]
  BY <1>1 DEF Publish, TypeOK
<1>4. ASSUME NEW t \in Seq(Fact), NEW u \in Seq(Fact), NEW m \in DOMAIN u
      PROVE  Len(t) + m \in DOMAIN (t \o u) /\ (t \o u)[Len(t) + m] = u[m]
  OBVIOUS
<1>5. ASSUME NEW k \in Keys
      PROVE  /\ \A m \in DOMAIN staged[a][k] :
                  \E n \in DOMAIN book'[k] : book'[k][n] = staged[a][k][m]
             /\ \A n \in DOMAIN book'[k] :
                  \/ n \in DOMAIN book[k] /\ book'[k][n] = book[k][n]
                  \/ \E m \in DOMAIN staged[a][k] : book'[k][n] = staged[a][k][m]
  <2>1. book[k] \in Seq(Fact) /\ staged[a][k] \in Seq(Fact) /\ book'[k] = book[k] \o staged[a][k]
    BY <1>1, <1>2 DEF TypeOK
  <2>2. ASSUME NEW m \in DOMAIN staged[a][k]
        PROVE  \E n \in DOMAIN book'[k] : book'[k][n] = staged[a][k][m]
    <3>1. /\ Len(book[k]) + m \in DOMAIN (book[k] \o staged[a][k])
          /\ (book[k] \o staged[a][k])[Len(book[k]) + m] = staged[a][k][m]
      BY <1>4, <2>1
    <3>2. QED
      BY <2>1, <3>1
  <2>3. ASSUME NEW n \in DOMAIN book'[k]
        PROVE  \/ n \in DOMAIN book[k] /\ book'[k][n] = book[k][n]
               \/ \E m \in DOMAIN staged[a][k] : book'[k][n] = staged[a][k][m]
    <3>1. n \in DOMAIN (book[k] \o staged[a][k])
      BY <2>1, <2>3
    <3>2. QED
      BY <2>1, <3>1, ConcatElement
  <2>4. QED
    BY <2>2, <2>3
<1>6. QED
  BY <1>1, <1>2, <1>3, <1>5, ForgetType

(* A rollback gives up the rows of its transaction and only those.         *)
LEMMA RollbackDrops ==
  ASSUME TypeInv, NEW a \in Actors, Rollback(a)
  PROVE  /\ UNCHANGED <<tables, jobVars>>
         /\ \A k \in Keys : staged'[a][k] = <<>>
         /\ \A b \in Actors : b # a =>
              staged'[b] = staged[b] /\ pc'[b] = pc[b] /\ row'[b] = row[b]
         /\ \A r \in Reviewers : r # a => review'[r] = review[r]
         /\ pc'[a] = IF a \in Jobs THEN "done" ELSE "idle"
         /\ pc[a] \notin {"idle", "done"}
  BY ForgetType DEF Rollback, NoRows, TypeInv, TypeOK

(* Where a row held after a step comes from: it was held before, or it is  *)
(* the prepared row of its transaction.                                    *)
LEMMA StepStaged ==
  ASSUME TypeInv, [Next]_vars, NEW b \in Actors, NEW k \in Keys, NEW n \in DOMAIN staged'[b][k]
  PROVE  \/ n \in DOMAIN staged[b][k] /\ staged'[b][k][n] = staged[b][k][n]
         \/ pc[b] = "insert" /\ k = row[b].key /\ staged'[b][k][n] = row[b].fact
<1> DEFINE Goal == \/ n \in DOMAIN staged[b][k] /\ staged'[b][k][n] = staged[b][k][n]
                   \/ pc[b] = "insert" /\ k = row[b].key /\ staged'[b][k][n] = row[b].fact
<1>0. Jobs \subseteq Actors /\ Reviewers \subseteq Actors
  BY DEF Actors
<1>1. ASSUME NEW a \in Actors, pc[a] = "insert", Insert(a) PROVE Goal
  BY <1>1, InsertAdds
<1>2. ASSUME NEW a \in Actors, \A l \in Keys : staged'[a][l] = <<>>,
             \A c \in Actors : c # a => staged'[c] = staged[c]
      PROVE  Goal
  <2>1. staged'[b][k] # <<>>
    OBVIOUS
  <2>2. b # a
    BY <1>2, <2>1
  <2>3. QED
    BY <1>2, <2>2
<1>3. ASSUME staged' = staged PROVE Goal
  BY <1>3
<1>4. ASSUME NEW a \in Actors, Commits(a) PROVE Goal
  BY <1>2, <1>4, CommitAdds
<1>5. ASSUME NEW a \in Actors, Rollback(a) PROVE Goal
  BY <1>2, <1>5, RollbackDrops
<1> HIDE DEF Goal
<1>6. ASSUME NEW j \in Jobs, Parse(j) PROVE Goal
  BY <1>0, <1>1, <1>3, <1>4, <1>6
     DEF Parse, ParseBegin, ParseProposal, ParseAutoInsert, Commits, tables, jobVars
<1>7. ASSUME NEW r \in Reviewers, Confirm(r) PROVE Goal
  BY <1>0, <1>1, <1>3, <1>4, <1>7
     DEF Confirm, ConfirmBegin, ConfirmSelect, ConfirmInsert, Commits, tables, jobVars
<1>8. QED
  <2>1. Goal
    BY <1>3, <1>5, <1>6, <1>7 DEF Next, Reject, vars, tables, jobVars
  <2>2. QED
    BY <2>1 DEF Goal

(* A row in the book after a step was there before, or was held by the     *)
(* transaction that commits in this step.                                  *)
LEMMA StepBook ==
  ASSUME TypeInv, [Next]_vars, NEW k \in Keys, NEW n \in DOMAIN book'[k]
  PROVE  \/ n \in DOMAIN book[k] /\ book'[k][n] = book[k][n]
         \/ \E a \in Actors : Commits(a) /\ \E m \in DOMAIN staged[a][k] : book'[k][n] = staged[a][k][m]
<1>0. Jobs \subseteq Actors /\ Reviewers \subseteq Actors
  BY DEF Actors
<1>1. CASE book' = book
  BY <1>1
<1>2. CASE \E a \in Actors : Commits(a)
  BY <1>2, CommitAdds
<1>3. QED
  BY <1>0, <1>1, <1>2 DEF Next, Parse, Confirm, ParseBegin, ParseProposal, ParseAutoInsert,
     ConfirmBegin, ConfirmSelect, ConfirmInsert, Rollback, Reject, tables, vars, Commits

(* A request about to insert or to commit has the row it had, or has just  *)
(* prepared it.                                                            *)
LEMMA StepRow ==
  ASSUME TypeInv, [Next]_vars, NEW b \in Actors, pc'[b] \in {"insert", "commit"}
  PROVE  \/ /\ pc[b] \in {"insert", "commit"} /\ row'[b] = row[b]
            /\ b \in Reviewers => review'[b] = review[b]
            /\ pc'[b] = pc[b] \/ Insert(b)
         \/ b \in Jobs /\ ParseProposal(b) /\ pc[b] = "proposal" /\ pc'[b] = "insert"
         \/ b \in Reviewers /\ ConfirmSelect(b) /\ pc[b] = "select" /\ pc'[b] = "insert"
<1> DEFINE Same == /\ pc[b] \in {"insert", "commit"} /\ row'[b] = row[b]
                   /\ b \in Reviewers => review'[b] = review[b]
                   /\ pc'[b] = pc[b] \/ Insert(b)
<1>0. /\ Jobs \subseteq Actors /\ Reviewers \subseteq Actors /\ Jobs \cap Reviewers = {}
      /\ TypeOK /\ pc[b] \in {"idle", "proposal", "select", "insert", "commit", "done"}
  BY MetricBookAssumption DEF Actors, TypeInv, TypeOK
<1>1. ASSUME NEW j \in Jobs, ParseBegin(j) PROVE Same
  BY <1>0, <1>1 DEF ParseBegin, TypeOK
<1>2. ASSUME NEW j \in Jobs, ParseProposal(j)
      PROVE  Same \/ (b \in Jobs /\ ParseProposal(b) /\ pc[b] = "proposal" /\ pc'[b] = "insert")
  <2>1. CASE b = j
    BY <1>0, <1>2, <2>1 DEF ParseProposal, TypeOK
  <2>2. CASE b # j
    <3>1. review' = review /\ pc'[b] = pc[b] /\ row'[b] = row[b]
      BY <1>0, <1>2, <2>2 DEF ParseProposal, TypeOK, Select
    <3>2. QED
      BY <3>1
  <2>3. QED
    BY <2>1, <2>2
<1>3. ASSUME NEW j \in Jobs, ParseAutoInsert(j) PROVE Same
  BY <1>0, <1>3 DEF ParseAutoInsert, TypeOK
<1>4. ASSUME NEW r \in Reviewers, NEW i \in Items, NEW patch \in Patches, ConfirmBegin(r, i, patch)
      PROVE  Same
  BY <1>0, <1>4 DEF ConfirmBegin, TypeOK
<1>5. ASSUME NEW r \in Reviewers, ConfirmSelect(r)
      PROVE  Same \/ (b \in Reviewers /\ ConfirmSelect(b) /\ pc[b] = "select" /\ pc'[b] = "insert")
  <2>1. CASE b = r
    BY <1>0, <1>5, <2>1 DEF ConfirmSelect, TypeOK
  <2>2. CASE b # r
    <3>1. review' = review /\ pc'[b] = pc[b] /\ row'[b] = row[b]
      BY <1>0, <1>5, <2>2 DEF ConfirmSelect, TypeOK, Select
    <3>2. QED
      BY <3>1
  <2>3. QED
    BY <2>1, <2>2
<1>6. ASSUME NEW r \in Reviewers, ConfirmInsert(r) PROVE Same
  BY <1>0, <1>6 DEF ConfirmInsert, TypeOK
<1>7. ASSUME NEW a \in Actors, Commits(a) PROVE Same
  BY <1>0, <1>7, CommitAdds
<1>8. ASSUME NEW a \in Actors, Rollback(a) PROVE Same
  BY <1>0, <1>8, RollbackDrops
<1>9. ASSUME UNCHANGED <<pc, row, review>> PROVE Same
  BY <1>9
<1> HIDE DEF Same
<1>10. ASSUME NEW j \in Jobs, Parse(j)
       PROVE  Same \/ (b \in Jobs /\ ParseProposal(b) /\ pc[b] = "proposal" /\ pc'[b] = "insert")
  BY <1>0, <1>1, <1>2, <1>3, <1>7, <1>10 DEF Parse, Commits
<1>11. ASSUME NEW r \in Reviewers, Confirm(r)
       PROVE  Same \/ (b \in Reviewers /\ ConfirmSelect(b) /\ pc[b] = "select" /\ pc'[b] = "insert")
  BY <1>0, <1>4, <1>5, <1>6, <1>7, <1>11 DEF Confirm, Commits
<1>12. ASSUME NEW i \in Items, Reject(i) PROVE Same
  BY <1>9, <1>12 DEF Reject, jobVars
<1>13. ASSUME UNCHANGED vars PROVE Same
  BY <1>9, <1>13 DEF vars
<1>14. QED
  BY <1>8, <1>10, <1>11, <1>12, <1>13 DEF Next, Same

(* The row a SELECT prepares, in full. *)
LEMMA SelectIs ==
  ASSUME TypeOK, NEW a \in Actors, NEW k, NEW v, NEW u, NEW i, Select(a, k, v, u, i)
  PROVE  /\ row'[a].key = k /\ row'[a].fact.value = v /\ row'[a].fact.unit = u
         /\ row'[a].fact.item = i /\ row'[a].fact.by = a
<1>1. row'[a] = [key |-> k, fact |->
        [version |-> TopVersion(a, k) + 1, restates |-> TopVersion(a, k), value |-> v,
         unit |-> u, item |-> i, by |-> a]]
  BY DEF Select, TypeOK
<1>2. QED
  BY <1>1

(* A parse that prepares a row has just confirmed that very proposal, with *)
(* value and unit of a ledger row when the ledger it read has any.         *)
LEMMA ProposalRow ==
  ASSUME TypeInv, NEW j \in Jobs, ParseProposal(j), pc'[j] = "insert"
  PROVE  /\ row'[j].fact.by = j
         /\ row'[j].fact.item = <<j, Len(decided[j]) + 1>>
         /\ Reapplied(row'[j].fact, row'[j].key)
<1> DEFINE n == Len(decided[j]) + 1
           q == Extract[doc[j]][n]
<1>0. j \in Actors /\ TypeOK /\ pc[j] = "proposal" /\ Jobs \subseteq Actors
  BY DEF ParseProposal, Actors, TypeInv
<1>1. /\ doc[j] \in Docs /\ n \in 1..Len(Extract[doc[j]]) /\ q \in Proposal
      /\ ledger[j] \in Seq(Correction)
  BY <1>0, MetricBookAssumption DEF ParseProposal, TypeInv, TypeOK, LocalOK, JobOK
<1>2. PICK p \in LedgerApplied(ledger[j], q) : Select(j, p.key, p.value, p.unit, <<j, n>>)
  BY <1>0 DEF ParseProposal
<1> HIDE DEF n, q
<1>3. /\ row'[j].key = p.key /\ row'[j].fact.value = p.value /\ row'[j].fact.unit = p.unit
      /\ row'[j].fact.item = <<j, n>> /\ row'[j].fact.by = j
  BY <1>0, <1>2, SelectIs
<1>4. p.key = q.key
  BY <1>1, LedgerAppliedType
<1>5. ASSUME NEW c \in Range(ledger[j]), c.key = p.key
      PROVE  \E d \in Range(ledger[j]) : d.key = p.key /\ p.value = d.value /\ p.unit = d.unit
  <2>1. Hits(ledger[j], q) # {}
    BY <1>1, <1>4, <1>5 DEF Hits, Range
  <2>2. PICK m \in Hits(ledger[j], q) : p = Corrected(q, ledger[j][m])
    BY <1>2, <2>1 DEF LedgerApplied
  <2>3. /\ m \in DOMAIN ledger[j] /\ ledger[j][m].key = q.key
        /\ ledger[j][m] \in Range(ledger[j])
    BY <2>2 DEF Hits, Range
  <2>4. p.value = ledger[j][m].value /\ p.unit = ledger[j][m].unit
    BY <1>1, <2>2 DEF Corrected, Proposal
  <2>5. QED
    BY <1>4, <2>3, <2>4
<1>6. QED
  BY <1>3, <1>5 DEF Reapplied, n

(* A confirm that prepares a row does so in the reviewer's name, for the   *)
(* item under review.                                                      *)
LEMMA ConfirmRow ==
  ASSUME TypeInv, NEW r \in Reviewers, ConfirmSelect(r)
  PROVE  row'[r].fact.by = r /\ row'[r].fact.item = review'[r].item
<1>0. r \in Actors /\ TypeOK
  BY DEF Actors, TypeInv
<1>1. review' = review
  BY DEF ConfirmSelect
<1>2. QED
  BY <1>0, <1>1, SelectIs DEF ConfirmSelect

(* A job that is over stays over. *)
LEMMA DoneStays ==
  ASSUME TypeInv, [Next]_vars, NEW j \in Jobs, pc[j] = "done"
  PROVE  pc'[j] = "done"
<1>0. /\ Jobs \subseteq Actors /\ Reviewers \subseteq Actors /\ Jobs \cap Reviewers = {} /\ TypeOK
  BY MetricBookAssumption DEF Actors, TypeInv
<1>1. ASSUME NEW h \in Jobs, Parse(h) PROVE pc'[j] = "done"
  <2>1. CASE ParseCommit(h)
    BY <1>0, <2>1, CommitAdds DEF Commits
  <2>2. CASE ~ParseCommit(h)
    BY <1>0, <1>1, <2>2 DEF Parse, ParseBegin, ParseProposal, ParseAutoInsert, TypeOK
  <2>3. QED
    BY <2>1, <2>2
<1>2. ASSUME NEW r \in Reviewers, Confirm(r) PROVE pc'[j] = "done"
  <2>1. CASE ConfirmCommit(r)
    BY <1>0, <2>1, CommitAdds DEF Commits
  <2>2. CASE ~ConfirmCommit(r)
    BY <1>0, <1>2, <2>2 DEF Confirm, ConfirmBegin, ConfirmSelect, ConfirmInsert, TypeOK
  <2>3. QED
    BY <2>1, <2>2
<1>3. ASSUME NEW a \in Actors, Rollback(a) PROVE pc'[j] = "done"
  BY <1>0, <1>3, RollbackDrops
<1>4. CASE UNCHANGED pc
  BY <1>4
<1>5. QED
  BY <1>1, <1>2, <1>3, <1>4 DEF Next, Reject, vars

(* The ledger a job works with is read once, when it begins.               *)
LEMMA LedgerStays ==
  ASSUME TypeInv, [Next]_vars, NEW j \in Jobs, pc[j] # "idle"
  PROVE  ledger'[j] = ledger[j]
<1>0. TypeOK
  BY DEF TypeInv
<1>1. ASSUME NEW h \in Jobs, Parse(h) PROVE ledger'[j] = ledger[j]
  BY <1>0, <1>1
     DEF Parse, ParseBegin, ParseProposal, ParseAutoInsert, ParseCommit, TypeOK, jobVars
<1>2. ASSUME NEW r \in Reviewers, Confirm(r) PROVE ledger'[j] = ledger[j]
  BY <1>2 DEF Confirm, ConfirmBegin, ConfirmSelect, ConfirmInsert, ConfirmCommit, jobVars
<1>3. ASSUME NEW a \in Actors, Rollback(a) PROVE ledger'[j] = ledger[j]
  BY <1>3 DEF Rollback, jobVars
<1>4. CASE UNCHANGED jobVars
  BY <1>4 DEF jobVars
<1>5. QED
  BY <1>1, <1>2, <1>3, <1>4 DEF Next, Reject, vars

(* Rows carry the name of their transaction, through every step.           *)
LEMMA StepWriter == TypeInv /\ WriterInv /\ [Next]_vars => WriterInv'
<1> SUFFICES ASSUME TypeInv, RowIsOwn, StagedIsOwn, BookedIsOver, [Next]_vars
             PROVE  RowIsOwn' /\ StagedIsOwn' /\ BookedIsOver'
  BY DEF WriterInv
<1>0. Jobs \subseteq Actors /\ Reviewers \subseteq Actors /\ Jobs \cap Reviewers = {}
  BY MetricBookAssumption DEF Actors
<1>1. ASSUME NEW a \in Actors, pc'[a] \in {"insert", "commit"}
      PROVE  row'[a].fact.by = a /\ (a \in Reviewers => row'[a].fact.item = review'[a].item)
  <2>1. CASE /\ pc[a] \in {"insert", "commit"} /\ row'[a] = row[a]
             /\ a \in Reviewers => review'[a] = review[a]
    BY <2>1 DEF RowIsOwn
  <2>2. CASE a \in Jobs /\ ParseProposal(a) /\ pc'[a] = "insert"
    BY <1>0, <2>2, ProposalRow
  <2>3. CASE a \in Reviewers /\ ConfirmSelect(a)
    BY <2>3, ConfirmRow
  <2>4. QED
    BY <1>1, <2>1, <2>2, <2>3, StepRow
<1>2. ASSUME NEW a \in Actors, NEW k \in Keys, NEW n \in DOMAIN staged'[a][k]
      PROVE  staged'[a][k][n].by = a
  BY <1>2, StepStaged DEF StagedIsOwn, RowIsOwn
<1>3. ASSUME NEW k \in Keys, NEW n \in DOMAIN book'[k], book'[k][n].by \in Jobs
      PROVE  pc'[book'[k][n].by] = "done"
  <2>1. CASE n \in DOMAIN book[k] /\ book'[k][n] = book[k][n]
    BY <1>3, <2>1, DoneStays DEF BookedIsOver
  <2>2. CASE \E a \in Actors : Commits(a) /\ \E m \in DOMAIN staged[a][k] : book'[k][n] = staged[a][k][m]
    <3>1. PICK a \in Actors : Commits(a) /\ \E m \in DOMAIN staged[a][k] : book'[k][n] = staged[a][k][m]
      BY <2>2
    <3>2. book'[k][n].by = a
      BY <3>1 DEF StagedIsOwn
    <3>3. QED
      BY <1>3, <3>1, <3>2, CommitAdds
  <2>3. QED
    BY <1>3, <2>1, <2>2, StepBook
<1>4. QED
  BY <1>1, <1>2, <1>3 DEF RowIsOwn, StagedIsOwn, BookedIsOver

(* Rows of jobs keep following the ledger their job read.                  *)
LEMMA StepReapply ==
  TypeInv /\ SourceInv /\ WriterInv /\ ReapplyInv /\ [Next]_vars => ReapplyInv'
<1> SUFFICES ASSUME TypeInv, SourceInv, WriterInv, ReapplyInv, [Next]_vars PROVE ReapplyInv'
  OBVIOUS
<1>0. Jobs \subseteq Actors /\ Reviewers \subseteq Actors /\ Jobs \cap Reviewers = {}
  BY MetricBookAssumption DEF Actors
<1>1. ASSUME NEW f, NEW k, Reapplied(f, k), f.by \in Jobs => pc[f.by] # "idle"
      PROVE  Reapplied(f, k)'
  BY <1>1, LedgerStays DEF Reapplied
<1>2. ASSUME NEW a \in Actors, pc'[a] = "insert" PROVE Reapplied(row[a].fact, row[a].key)'
  <2>1. CASE pc[a] \in {"insert", "commit"} /\ row'[a] = row[a] /\ (pc'[a] = pc[a] \/ Insert(a))
    <3>1. pc[a] = "insert" \/ a \in Reviewers
      BY <1>0, <2>1 DEF TypeInv, LocalOK, JobOK, Actors
    <3>2. row[a].fact.by = a
      BY <2>1 DEF WriterInv, RowIsOwn
    <3>3. Reapplied(row[a].fact, row[a].key)
      BY <1>0, <2>1, <3>1, <3>2 DEF ReapplyInv, RowReapplied, Reapplied
    <3>4. Reapplied(row'[a].fact, row'[a].key)
      BY <2>1, <3>3
    <3>5. ledger'[row'[a].fact.by] = ledger[row'[a].fact.by] \/ row'[a].fact.by \notin Jobs
      BY <2>1, <3>2, LedgerStays
    <3>6. QED
      BY <3>4, <3>5 DEF Reapplied
  <2>2. CASE a \in Jobs /\ ParseProposal(a) /\ pc'[a] = "insert"
    <3>1. Reapplied(row'[a].fact, row'[a].key) /\ ledger' = ledger
      BY <2>2, ProposalRow DEF ParseProposal
    <3>2. QED
      BY <3>1 DEF Reapplied
  <2>3. CASE a \in Reviewers /\ ConfirmSelect(a)
    <3>1. row'[a].fact.by \notin Jobs
      BY <1>0, <2>3, ConfirmRow
    <3>2. QED
      BY <3>1 DEF Reapplied
  <2>4. QED
    BY <1>2, <2>1, <2>2, <2>3, StepRow
<1>3. ASSUME NEW a \in Actors, NEW k \in Keys, NEW n \in DOMAIN staged'[a][k]
      PROVE  Reapplied(staged[a][k][n], k)'
  <2>1. CASE n \in DOMAIN staged[a][k] /\ staged'[a][k][n] = staged[a][k][n]
    <3>1. staged[a][k] # <<>>
      BY <2>1
    <3>2. staged[a][k][n].by = a /\ pc[a] # "idle"
      BY <2>1, <3>1 DEF WriterInv, StagedIsOwn, SourceInv, NothingHeld
    <3>3. Reapplied(staged'[a][k][n], k)
      BY <2>1 DEF ReapplyInv, StagedReapplied
    <3>4. QED
      BY <2>1, <3>2, <3>3, LedgerStays DEF Reapplied
  <2>2. CASE pc[a] = "insert" /\ k = row[a].key /\ staged'[a][k][n] = row[a].fact
    <3>1. row[a].fact.by = a
      BY <2>2 DEF WriterInv, RowIsOwn
    <3>2. Reapplied(staged'[a][k][n], k)
      BY <2>2 DEF ReapplyInv, RowReapplied
    <3>3. QED
      BY <2>2, <3>1, <3>2, LedgerStays DEF Reapplied
  <2>3. QED
    BY <1>3, <2>1, <2>2, StepStaged
<1>4. ASSUME NEW k \in Keys, NEW n \in DOMAIN book'[k] PROVE Reapplied(book[k][n], k)'
  <2>1. CASE n \in DOMAIN book[k] /\ book'[k][n] = book[k][n]
    <3>1. book[k][n].by \in Jobs => pc[book[k][n].by] = "done"
      BY <2>1 DEF WriterInv, BookedIsOver
    <3>2. Reapplied(book'[k][n], k)
      BY <2>1 DEF ReapplyInv, LedgerReapplied, Reapplied
    <3>3. QED
      BY <2>1, <3>1, <3>2, LedgerStays DEF Reapplied
  <2>2. CASE \E a \in Actors : Commits(a) /\ \E m \in DOMAIN staged[a][k] : book'[k][n] = staged[a][k][m]
    <3>1. PICK a \in Actors : Commits(a) /\ \E m \in DOMAIN staged[a][k] : book'[k][n] = staged[a][k][m]
      BY <2>2
    <3>2. Reapplied(book'[k][n], k)
      BY <3>1 DEF ReapplyInv, StagedReapplied
    <3>3. ledger' = ledger
      BY <3>1 DEF Commits, ParseCommit, ConfirmCommit, jobVars
    <3>4. QED
      BY <3>2, <3>3 DEF Reapplied
  <2>3. QED
    BY <1>4, <2>1, <2>2, StepBook
<1>5. LedgerReapplied'
  BY <1>4 DEF LedgerReapplied, Reapplied
<1>6. StagedReapplied' /\ RowReapplied'
  BY <1>2, <1>3 DEF StagedReapplied, RowReapplied
<1>7. QED
  BY <1>5, <1>6 DEF ReapplyInv

(* What a transaction holds it keeps until it is over.                     *)
LEMMA StagedStays ==
  ASSUME TypeInv, [Next]_vars, NEW b \in Actors, NEW k \in Keys, NEW n \in DOMAIN staged[b][k]
  PROVE  \/ n \in DOMAIN staged'[b][k] /\ staged'[b][k][n] = staged[b][k][n]
         \/ pc'[b] = (IF b \in Jobs THEN "done" ELSE "idle")
<1> DEFINE Kept == \/ n \in DOMAIN staged'[b][k] /\ staged'[b][k][n] = staged[b][k][n]
                   \/ pc'[b] = (IF b \in Jobs THEN "done" ELSE "idle")
<1>0. Jobs \subseteq Actors /\ Reviewers \subseteq Actors
  BY DEF Actors
<1>1. ASSUME NEW a \in Actors, pc[a] = "insert", Insert(a) PROVE Kept
  BY <1>1, InsertAdds
<1>2. ASSUME staged' = staged PROVE Kept
  BY <1>2
<1>3. ASSUME NEW a \in Actors, Commits(a) PROVE Kept
  BY <1>3, CommitAdds
<1>4. ASSUME NEW a \in Actors, Rollback(a) PROVE Kept
  BY <1>4, RollbackDrops
<1> HIDE DEF Kept
<1>5. ASSUME NEW j \in Jobs, Parse(j) PROVE Kept
  BY <1>0, <1>1, <1>2, <1>3, <1>5
     DEF Parse, ParseBegin, ParseProposal, ParseAutoInsert, Commits
<1>6. ASSUME NEW r \in Reviewers, Confirm(r) PROVE Kept
  BY <1>0, <1>1, <1>2, <1>3, <1>6
     DEF Confirm, ConfirmBegin, ConfirmSelect, ConfirmInsert, Commits
<1>7. Kept
  BY <1>2, <1>4, <1>5, <1>6 DEF Next, Reject, vars
<1>8. QED
  BY <1>7 DEF Kept

(* What a job has decided changes only by deciding the next proposal.      *)
LEMMA DecidedStays ==
  ASSUME TypeInv, [Next]_vars, NEW j \in Jobs
  PROVE  decided'[j] = decided[j] \/ ParseProposal(j)
<1>0. TypeOK
  BY DEF TypeInv
<1>1. ASSUME NEW h \in Jobs, ParseProposal(h) PROVE decided'[j] = decided[j] \/ h = j
  BY <1>0, <1>1 DEF ParseProposal, TypeOK
<1>2. CASE decided' = decided
  BY <1>2
<1>3. QED
  BY <1>1, <1>2 DEF Next, Parse, Confirm, ParseBegin, ParseAutoInsert, ParseCommit,
     ConfirmBegin, ConfirmSelect, ConfirmInsert, ConfirmCommit, Rollback, Reject, jobVars, vars

(* A job that has a row to insert still has it after a step, has inserted  *)
(* it, or is over.                                                         *)
LEMMA JobMoves ==
  ASSUME TypeInv, [Next]_vars, NEW j \in Jobs, pc[j] = "insert"
  PROVE  \/ pc'[j] = "insert" /\ row'[j] = row[j]
         \/ \E n \in DOMAIN staged'[j][row[j].key] : staged'[j][row[j].key][n] = row[j].fact
         \/ pc'[j] = "done"
<1> DEFINE Moved == \/ pc'[j] = "insert" /\ row'[j] = row[j]
                    \/ \E n \in DOMAIN staged'[j][row[j].key] : staged'[j][row[j].key][n] = row[j].fact
                    \/ pc'[j] = "done"
<1>0. /\ Jobs \subseteq Actors /\ Reviewers \subseteq Actors /\ Jobs \cap Reviewers = {}
      /\ TypeOK
  BY MetricBookAssumption DEF Actors, TypeInv
<1>1. ASSUME NEW h \in Jobs, Parse(h) PROVE Moved
  <2>1. CASE h = j
    BY <1>0, <1>1, <2>1, InsertAdds
       DEF Parse, ParseBegin, ParseProposal, ParseAutoInsert, ParseCommit
  <2>2. CASE h # j
    <3>1. CASE ParseCommit(h)
      BY <1>0, <2>2, <3>1, CommitAdds DEF Commits
    <3>2. CASE ParseBegin(h) \/ ParseProposal(h) \/ ParseAutoInsert(h)
      BY <1>0, <2>2, <3>2 DEF ParseBegin, ParseProposal, ParseAutoInsert, Select, TypeOK
    <3>3. QED
      BY <1>1, <3>1, <3>2 DEF Parse
  <2>3. QED
    BY <2>1, <2>2
<1>2. ASSUME NEW r \in Reviewers, Confirm(r) PROVE Moved
  <2>1. CASE ConfirmCommit(r)
    BY <1>0, <2>1, CommitAdds DEF Commits
  <2>2. CASE ~ConfirmCommit(r)
    BY <1>0, <1>2, <2>2 DEF Confirm, ConfirmBegin, ConfirmSelect, ConfirmInsert, Select, TypeOK
  <2>3. QED
    BY <2>1, <2>2
<1>3. ASSUME NEW a \in Actors, Rollback(a) PROVE Moved
  BY <1>0, <1>3, RollbackDrops
<1>4. ASSUME UNCHANGED <<pc, row>> PROVE Moved
  BY <1>4
<1> HIDE DEF Moved
<1>5. Moved
  BY <1>1, <1>2, <1>3, <1>4 DEF Next, Reject, vars
<1>6. QED
  BY <1>5 DEF Moved

(* A reviewer about to commit holds its row, and a job one of every        *)
(* proposal it has confirmed, through every step.                          *)
LEMMA StepHeld == TypeInv /\ WriterInv /\ HeldInv /\ [Next]_vars => HeldInv'
<1> SUFFICES ASSUME TypeInv, WriterInv, HeldInv, [Next]_vars PROVE ReviewerHolds' /\ JobHolds'
  BY DEF HeldInv
<1>0. /\ Jobs \subseteq Actors /\ Reviewers \subseteq Actors /\ Jobs \cap Reviewers = {}
      /\ Actors = Jobs \cup Reviewers /\ TypeOK /\ LocalOK
  BY MetricBookAssumption DEF Actors, TypeInv
<1>1. ASSUME NEW r \in Reviewers, pc'[r] = "commit"
      PROVE  \E n \in DOMAIN staged'[r][row'[r].key] : staged'[r][row'[r].key][n] = row'[r].fact
  <2>1. /\ pc[r] \in {"insert", "commit"} /\ row'[r] = row[r]
        /\ pc'[r] = pc[r] \/ Insert(r)
    BY <1>0, <1>1, StepRow
  <2>2. row[r].key \in Keys
    BY <1>0, <2>1 DEF LocalOK
  <2>3. CASE pc[r] = "commit"
    <3>1. PICK n \in DOMAIN staged[r][row[r].key] : staged[r][row[r].key][n] = row[r].fact
      BY <2>3 DEF HeldInv, ReviewerHolds
    <3>2. n \in DOMAIN staged'[r][row[r].key] /\ staged'[r][row[r].key][n] = row[r].fact
      BY <1>0, <1>1, <2>2, <3>1, StagedStays
    <3>3. QED
      BY <2>1, <3>2
  <2>4. CASE pc[r] = "insert"
    BY <1>0, <1>1, <2>1, <2>4, InsertAdds
  <2>5. QED
    BY <2>1, <2>3, <2>4
<1>2. ASSUME NEW j \in Jobs, NEW n \in DOMAIN decided'[j], pc'[j] # "done",
             decided'[j][n].status = "confirmed"
      PROVE  \/ Holds(staged[j], <<j, n>>)'
             \/ pc'[j] = "insert" /\ row'[j].fact.item = <<j, n>>
  <2>1. CASE n \in DOMAIN decided[j] /\ decided'[j][n] = decided[j][n]
    <3>1. pc[j] # "done"
      BY <1>2, DoneStays
    <3>2. \/ Holds(staged[j], <<j, n>>)
          \/ pc[j] = "insert" /\ row[j].fact.item = <<j, n>>
      BY <1>2, <2>1, <3>1 DEF HeldInv, JobHolds
    <3>3. CASE Holds(staged[j], <<j, n>>)
      <4>1. PICK k \in Keys : \E m \in DOMAIN staged[j][k] : staged[j][k][m].item = <<j, n>>
        BY <3>3 DEF Holds
      <4>2. PICK m \in DOMAIN staged[j][k] : staged[j][k][m].item = <<j, n>>
        BY <4>1
      <4>3. m \in DOMAIN staged'[j][k] /\ staged'[j][k][m].item = <<j, n>>
        BY <1>0, <1>2, <4>2, StagedStays
      <4>4. QED
        BY <4>3 DEF Holds
    <3>4. CASE pc[j] = "insert" /\ row[j].fact.item = <<j, n>>
      <4>1. row[j].key \in Keys
        BY <1>0, <3>4 DEF LocalOK
      <4>2. QED
        BY <1>2, <3>4, <4>1, JobMoves DEF Holds
    <3>5. QED
      BY <3>2, <3>3, <3>4
  <2>2. CASE ParseProposal(j)
    <3>1. decided[j] \in Seq(Entry) /\ pc[j] = "proposal"
      BY <1>0, <2>2 DEF TypeOK, ParseProposal
    <3>2. PICK e : /\ decided'[j] = Append(decided[j], e)
                   /\ e.status = "confirmed" => pc'[j] = "insert"
      <4>1. PICK p : \/ decided' = [decided EXCEPT ![j] = Append(@, [status |-> "pending", prop |-> p])]
                     \/ /\ decided' = [decided EXCEPT ![j] = Append(@, [status |-> "confirmed", prop |-> p])]
                        /\ pc' = [pc EXCEPT ![j] = "insert"]
        BY <2>2 DEF ParseProposal
      <4>2. \/ decided'[j] = Append(decided[j], [status |-> "pending", prop |-> p])
            \/ /\ decided'[j] = Append(decided[j], [status |-> "confirmed", prop |-> p])
               /\ pc'[j] = "insert"
        BY <1>0, <4>1 DEF TypeOK
      <4>3. [status |-> "pending", prop |-> p].status # "confirmed"
        OBVIOUS
      <4>4. QED
        BY <4>2, <4>3
    <3>3. \/ n \in DOMAIN decided[j] /\ decided'[j][n] = decided[j][n]
          \/ n = Len(decided[j]) + 1 /\ decided'[j][n] = e
      BY <1>2, <3>1, <3>2
    <3>4. CASE n = Len(decided[j]) + 1 /\ decided'[j][n] = e
      BY <1>2, <2>2, <3>2, <3>4, ProposalRow
    <3>5. QED
      BY <2>1, <3>3, <3>4
  <2>3. CASE decided'[j] = decided[j]
    BY <1>2, <2>1, <2>3
  <2>4. QED
    BY <2>2, <2>3, DecidedStays
<1>3. QED
  BY <1>1, <1>2 DEF ReviewerHolds, JobHolds

(* An item that a step marks confirmed or edited is of a committing        *)
(* transaction, which holds a row of it.                                   *)
LEMMA StepConfirmed ==
  TypeInv /\ WriterInv /\ HeldInv /\ ConfirmedIsBooked /\ [Next]_vars => ConfirmedIsBooked'
<1> SUFFICES ASSUME TypeInv, WriterInv, HeldInv, ConfirmedIsBooked, [Next]_vars,
                    NEW i \in Items, inbox'[i] \in {"confirmed", "edited"}
             PROVE  \E k \in Keys : \E n \in DOMAIN book'[k] : book'[k][n].item = i
  BY DEF ConfirmedIsBooked
<1>0. /\ Jobs \subseteq Actors /\ Reviewers \subseteq Actors /\ Jobs \cap Reviewers = {}
      /\ TypeOK /\ LocalOK
  BY MetricBookAssumption DEF Actors, TypeInv
<1>1. CASE inbox'[i] = inbox[i]
  <2>1. PICK k \in Keys : \E n \in DOMAIN book[k] : book[k][n].item = i
    BY <1>1 DEF ConfirmedIsBooked
  <2>2. PICK n \in DOMAIN book[k] : book[k][n].item = i
    BY <2>1
  <2>3. QED
    BY <2>2, BookGrows
<1>2. ASSUME NEW a \in Actors, Commits(a), Holds(staged[a], i)
      PROVE  \E k \in Keys : \E n \in DOMAIN book'[k] : book'[k][n].item = i
  <2>1. PICK k \in Keys : \E m \in DOMAIN staged[a][k] : staged[a][k][m].item = i
    BY <1>2 DEF Holds
  <2>2. PICK m \in DOMAIN staged[a][k] : staged[a][k][m].item = i
    BY <2>1
  <2>3. \E n \in DOMAIN book'[k] : book'[k][n] = staged[a][k][m]
    BY <1>2, CommitAdds
  <2>4. QED
    BY <2>2, <2>3
<1>3. ASSUME NEW j \in Jobs, ParseCommit(j), inbox'[i] # inbox[i] PROVE Holds(staged[j], i)
  <2>1. i \in {<<j, n>> : n \in DOMAIN decided[j]} /\ inbox'[i] = decided[j][i[2]].status
    BY <1>3 DEF ParseCommit
  <2>2. PICK n \in DOMAIN decided[j] : i = <<j, n>>
    BY <2>1
  <2>3. decided[j] \in Seq(Entry) /\ decided[j][n] \in Entry
    BY <1>0 DEF TypeOK
  <2>4. decided[j][n].status = "confirmed"
    BY <2>1, <2>2, <2>3 DEF Entry
  <2>5. pc[j] = "proposal"
    BY <1>3 DEF ParseCommit
  <2>6. QED
    BY <2>2, <2>4, <2>5 DEF HeldInv, JobHolds
<1>4. ASSUME NEW r \in Reviewers, ConfirmCommit(r), inbox'[i] # inbox[i] PROVE Holds(staged[r], i)
  <2>1. pc[r] = "commit" /\ i = review[r].item
    BY <1>0, <1>4 DEF ConfirmCommit, TypeOK
  <2>2. row[r].key \in Keys /\ row[r].fact.item = i
    BY <1>0, <2>1 DEF LocalOK, WriterInv, RowIsOwn
  <2>3. PICK n \in DOMAIN staged[r][row[r].key] : staged[r][row[r].key][n] = row[r].fact
    BY <2>1 DEF HeldInv, ReviewerHolds
  <2>4. QED
    BY <2>2, <2>3 DEF Holds
<1>5. ASSUME NEW l \in Items, Reject(l) PROVE inbox'[i] = inbox[i]
  BY <1>0, <1>5 DEF Reject, TypeOK
<1>6. CASE \E a \in Actors : Commits(a)
  BY <1>1, <1>2, <1>3, <1>4, <1>6 DEF Commits
<1>7. CASE inbox' = inbox
  BY <1>1, <1>7
<1>8. QED
  BY <1>0, <1>1, <1>5, <1>6, <1>7 DEF Next, Parse, Confirm, ParseBegin, ParseProposal,
     ParseAutoInsert, ConfirmBegin, ConfirmSelect, ConfirmInsert, Rollback, Commits, tables, vars

(* Where the rows of a ledger are in a book. *)
Backs(at, rows, b) ==
  \A n \in DOMAIN rows :
    LET c == rows[n]
    IN /\ at[n] \in DOMAIN b[c.key] /\ b[c.key][at[n]].by \in Reviewers
       /\ b[c.key][at[n]].value = c.value /\ b[c.key][at[n]].unit = c.unit
       /\ \A m \in DOMAIN rows : m < n /\ rows[m].key = c.key => at[m] < at[n]

(* A correction is recorded by the commit that books it, and that version  *)
(* comes after all that stand.                                             *)
LEMMA StepCorrection ==
  TypeInv /\ WriterInv /\ HeldInv /\ CorrectionIsBooked /\ [Next]_vars => CorrectionIsBooked'
<1> SUFFICES ASSUME TypeInv, WriterInv, HeldInv, CorrectionIsBooked, [Next]_vars
             PROVE  CorrectionIsBooked'
  OBVIOUS
<1> DEFINE Places == UNION {DOMAIN book[k] : k \in Keys}
           Later == UNION {DOMAIN book'[k] : k \in Keys}
<1>0. /\ Reviewers \subseteq Actors /\ TypeOK /\ LocalOK
      /\ corrections \in Seq(Correction) /\ book \in [Keys -> Seq(Fact)]
  BY DEF Actors, TypeInv, TypeOK
<1>1. PICK at \in [DOMAIN corrections -> Places] : Backs(at, corrections, book)
  BY DEF CorrectionIsBooked, Backs
<1>2. \A n \in DOMAIN corrections : corrections[n].key \in Keys
  <2>1. \A n \in DOMAIN corrections : corrections[n] \in Correction
    BY <1>0
  <2> QED
    BY <2>1 DEF Correction
<1>3. Backs(at, corrections, book')
  BY <1>1, <1>2, BookGrows DEF Backs
<1>4. Places \subseteq Later
  BY BookGrows
<1>5. ASSUME NEW to \in [DOMAIN corrections' -> Later], Backs(to, corrections', book')
      PROVE  CorrectionIsBooked'
  BY <1>5 DEF CorrectionIsBooked, Backs
<1>6. CASE corrections' = corrections
  <2>1. at \in [DOMAIN corrections' -> Later]
    BY <1>1, <1>4, <1>6
  <2> QED
    BY <1>3, <1>5, <1>6, <2>1
<1>7. ASSUME NEW r \in Reviewers, ConfirmCommit(r), corrections' # corrections PROVE CorrectionIsBooked'
  <2> DEFINE k == row[r].key
             f == row[r].fact
             new == [key |-> k, value |-> f.value, unit |-> f.unit]
             last == Len(corrections) + 1
  <2>1. pc[r] = "commit" /\ corrections' = Append(corrections, new) /\ Publish(r)
    BY <1>7 DEF ConfirmCommit
  <2>2. k \in Keys /\ f.by = r
    BY <1>0, <2>1 DEF LocalOK, WriterInv, RowIsOwn
  <2>3. PICK m \in DOMAIN staged[r][k] : staged[r][k][m] = f
    BY <2>1 DEF HeldInv, ReviewerHolds
  <2> HIDE DEF k, f
  <2> DEFINE place == Len(book[k]) + m
  <2>4. /\ place \in DOMAIN book'[k] /\ book'[k][place] = f /\ place \in Int
        /\ \A n \in DOMAIN book[k] : n < place
    <3> DEFINE told == book[k]
               mine == staged[r][k]
    <3>1. told \in Seq(Fact) /\ mine \in Seq(Fact) /\ book'[k] = told \o mine
      BY <1>0, <2>1, <2>2 DEF Publish, TypeOK
    <3>2. m \in DOMAIN mine /\ mine[m] = f
      BY <2>3
    <3> HIDE DEF told, mine
    <3>3. /\ Len(told) + m \in DOMAIN (told \o mine) /\ (told \o mine)[Len(told) + m] = mine[m]
          /\ Len(told) + m \in Int /\ \A n \in DOMAIN told : n < Len(told) + m
      BY <3>1, <3>2
    <3> QED
      BY <3>1, <3>2, <3>3 DEF told
  <2>5. /\ DOMAIN corrections' = DOMAIN corrections \cup {last} /\ corrections'[last] = new
        /\ \A n \in DOMAIN corrections : corrections'[n] = corrections[n] /\ n < last
    <3> HIDE DEF new
    <3>1. Len(corrections) \in Nat /\ DOMAIN corrections = 1..Len(corrections)
      BY <1>0, LenProperties
    <3>2. corrections \in Seq(Correction \cup {new})
      BY <1>0
    <3> QED
      BY <2>1, <3>1, <3>2, AppendProperties
  <2>6. new.key = k /\ new.value = f.value /\ new.unit = f.unit
    OBVIOUS
  <2> HIDE DEF new, place
  <2> DEFINE to == [n \in DOMAIN corrections' |-> IF n = last THEN place ELSE at[n]]
  <2>7. to \in [DOMAIN corrections' -> Later]
    BY <1>1, <1>4, <2>2, <2>4, <2>5
  <2>8. to[last] = place /\ \A n \in DOMAIN corrections : to[n] = at[n] /\ n # last
    BY <1>0, <2>5
  <2> HIDE DEF to
  <2>9. ASSUME NEW n \in DOMAIN corrections'
        PROVE  LET c == corrections'[n]
               IN /\ to[n] \in DOMAIN book'[c.key] /\ book'[c.key][to[n]].by \in Reviewers
                  /\ book'[c.key][to[n]].value = c.value /\ book'[c.key][to[n]].unit = c.unit
                  /\ \A x \in DOMAIN corrections' : x < n /\ corrections'[x].key = c.key => to[x] < to[n]
    <3>1. CASE n = last
      <4>1. ASSUME NEW x \in DOMAIN corrections', x < n, corrections'[x].key = k PROVE to[x] < to[n]
        <5>1. x \in DOMAIN corrections /\ corrections[x].key = k /\ to[x] = at[x]
          BY <2>5, <2>8, <3>1, <4>1
        <5>2. at[x] \in DOMAIN book[k]
          BY <1>1, <5>1 DEF Backs
        <5> QED
          BY <2>4, <2>8, <3>1, <5>1, <5>2
      <4> QED
        BY <2>2, <2>4, <2>5, <2>6, <2>8, <3>1, <4>1
    <3>2. CASE n # last
      <4>1. n \in DOMAIN corrections /\ corrections'[n] = corrections[n] /\ to[n] = at[n]
        BY <2>5, <2>8, <3>2
      <4>2. ASSUME NEW x \in DOMAIN corrections', x < n
            PROVE  x \in DOMAIN corrections /\ corrections'[x] = corrections[x] /\ to[x] = at[x]
        BY <1>0, <2>5, <2>8, <4>1, <4>2
      <4> QED
        BY <1>3, <4>1, <4>2 DEF Backs
    <3> QED
      BY <3>1, <3>2
  <2>10. Backs(to, corrections', book')
    BY <2>9 DEF Backs
  <2> QED
    BY <1>5, <2>7, <2>10
<1> HIDE DEF Places, Later
<1> QED
  BY <1>6, <1>7 DEF Next, Parse, Confirm, ParseBegin, ParseProposal, ParseAutoInsert,
     ParseCommit, ConfirmBegin, ConfirmSelect, ConfirmInsert, Rollback, Reject, tables, vars

(* The inductive invariant of the metric book. *)
BookInv ==
  TypeInv /\ ChainInv /\ SourceInv /\ WriterInv /\ HeldInv /\ ReapplyInv /\ ConfirmedIsBooked
  /\ CorrectionIsBooked

(* In the empty book nothing is confirmed, held or corrected.              *)
LEMMA InitBook == Init => BookInv
<1> SUFFICES ASSUME Init PROVE BookInv
  OBVIOUS
<1>1. WriterInv /\ HeldInv
  BY DEF Init, NoRows, WriterInv, RowIsOwn, StagedIsOwn, BookedIsOver, HeldInv, ReviewerHolds,
     JobHolds, Actors
<1>2. ReapplyInv
  BY DEF Init, NoRows, ReapplyInv, LedgerReapplied, StagedReapplied, RowReapplied
<1>3. ConfirmedIsBooked /\ CorrectionIsBooked
  <2>1. DOMAIN corrections = {} /\ corrections \in [DOMAIN corrections -> UNION {DOMAIN book[k] : k \in Keys}]
    BY DEF Init
  <2>2. ConfirmedIsBooked
    BY DEF Init, ConfirmedIsBooked
  <2> QED
    BY <2>1, <2>2 DEF CorrectionIsBooked
<1>4. QED
  BY <1>1, <1>2, <1>3, InitType, InitChain, InitSource DEF BookInv

(* Everything that is invariant about the book, together.                  *)
LEMMA BookSafety == Spec => []BookInv
<1>1. BookInv /\ [Next]_vars => BookInv'
  BY StepType, StepChain, StepSource, StepWriter, StepHeld, StepReapply, StepConfirmed,
     StepCorrection DEF BookInv
<1>2. QED
  BY <1>1, InitBook, PTL DEF Spec

(* An item marked confirmed or edited always has a figure in the book,     *)
(* whatever the order in which confirms, rejects, parses and rollbacks of  *)
(* it overlap (routes.ts confirm, worker parse loop).                      *)
THEOREM NoEmptyConfirm == Spec => []ConfirmedIsBooked
<1>1. BookInv => ConfirmedIsBooked
  BY DEF BookInv
<1>2. QED
  BY <1>1, BookSafety, PTL

(* A re-parse that read corrections of a figure never books what           *)
(* extraction found for it (corrections.ts, applyCorrectionLedger).        *)
THEOREM OverridesWin == Spec => []LedgerReapplied
<1>1. BookInv => LedgerReapplied
  BY DEF BookInv, ReapplyInv
<1>2. QED
  BY <1>1, BookSafety, PTL

(* The rows of the correction ledger have versions of their own in the     *)
(* book, booked by reviewers, in the order of the ledger: it is never      *)
(* ahead of the book, however confirms of one figure overlap and roll back *)
(* (routes.ts confirm).                                                    *)
THEOREM LedgerIsBacked == Spec => []CorrectionIsBooked
<1>1. BookInv => CorrectionIsBooked
  BY DEF BookInv
<1>2. QED
  BY <1>1, BookSafety, PTL

-----------------------------------------------------------------------------
(* Ask.                                                                    *)

(* What may be cited for a question. *)
Citable(q, t) == Within(q, t) /\ InBook(t)

QuestionOK(q) == DOMAIN q = {"firm", "words", "numbers"}

BookOK == facts \subseteq Facts /\ IsFiniteSet(facts)

(* The request under way has gathered what may be cited, and once the      *)
(* model is asked there is some of it.                                     *)
AskOK ==
  /\ DOMAIN ask = {"stage", "q", "found", "hits"} /\ ask = [x \in DOMAIN ask |-> ask[x]]
  /\ ask.stage # "idle" => QuestionOK(ask.q) /\ \A c \in ask.found \cup ask.hits : Citable(ask.q, c)
  /\ ask.stage = "ask" => filterEvidenceByTokens # {}

(* What is on record. *)
QueryOK(a) ==
  /\ QuestionOK(a.q)
  /\ ~a.refused =>
       /\ a.answer \cup a.q.numbers \subseteq NumbersIn(a.evidence)
       /\ a.citations # {} /\ SourcesCited(a)
       /\ \A t \in a.evidence : Citable(a.q, t)

(* While the page waits, its question holds the numbers of the last turns, *)
(* the last of which is the user's.                                        *)
WaitOK ==
  waiting =>
    /\ turns # <<>> => turns[Len(turns)].by = "user"
    /\ \A j \in DOMAIN turns : j >= Len(turns) - 4 => turns[j].numbers \subseteq ask.q.numbers

TurnsOK == \E S : turns \in Seq(S)

AskInv ==
  /\ BookOK /\ AskOK /\ TurnsOK /\ WaitOK /\ ThreadIsSourced
  /\ \A a \in queries : QueryOK(a)
-----------------------------------------------------------------------------
(* Of finitely many rows one is of the newest period. *)
LEMMA NewestIs ==
  ASSUME NEW rows, IsFiniteSet(rows), rows # {}, \A r \in rows : r.period \in Int
  PROVE  \E r \in rows : Cardinality({o \in rows : o.period > r.period}) = 0
<1> DEFINE Newer(r) == {o \in rows : o.period > r.period}
           Sizes == {Cardinality(Newer(r)) : r \in rows}
<1>1. ASSUME NEW r \in rows
      PROVE  IsFiniteSet(Newer(r)) /\ Cardinality(Newer(r)) \in Nat
  <2>1. Newer(r) \in SUBSET rows
    OBVIOUS
  <2>2. IsFiniteSet(Newer(r))
    BY <2>1, FS_Subset
  <2> QED
    BY <2>2, FS_CardinalityType
<1>2. Sizes \subseteq Nat /\ Sizes # {}
  BY <1>1
<1>3. PICK n \in Sizes : \A k \in Sizes : ~(<<k, n>> \in OpToRel(<, Nat))
  <2> HIDE DEF Sizes
  <2> QED
    BY <1>2, WFMin, NatLessThanWellFounded
<1>4. n \in Nat /\ \A k \in Sizes : ~(k < n)
  <2> HIDE DEF Sizes
  <2> QED
    BY <1>2, <1>3 DEF OpToRel
<1>5. PICK r \in rows : n = Cardinality(Newer(r))
  BY <1>3
<1>6. ASSUME NEW o \in Newer(r) PROVE FALSE
  <2>1. o \in rows /\ Newer(o) \subseteq Newer(r) /\ o \in Newer(r) /\ o \notin Newer(o)
    BY <1>6
  <2>2. Cardinality(Newer(o)) < Cardinality(Newer(r))
    <3> HIDE DEF Newer
    <3>1. /\ Cardinality(Newer(o)) <= Cardinality(Newer(r))
          /\ Cardinality(Newer(r)) = Cardinality(Newer(o)) => Newer(r) = Newer(o)
      BY <1>1, <2>1, FS_Subset
    <3> QED
      BY <1>1, <2>1, <3>1
  <2>3. Cardinality(Newer(o)) \in Sizes
    BY <2>1
  <2> HIDE DEF Sizes, Newer
  <2> QED
    BY <1>4, <1>5, <2>2, <2>3
<1>7. Newer(r) = {}
  <2> HIDE DEF Newer
  <2> QED
    BY <1>6
<1>8. Cardinality(Newer(r)) = 0
  <2> HIDE DEF Newer
  <2> QED
    BY <1>7, FS_EmptySet
<1> QED
  BY <1>8

LEMMA SeriesIs ==
  ASSUME NEW rows, IsFiniteSet(rows), \A r \in rows : r.period \in Int, 1 \in DOMAIN NewestFirst(rows)
  PROVE  NewestFirst(rows)[1] \in rows
<1>1. 1 \in 1..Cardinality(rows)
  BY DEF NewestFirst
<1>2. rows # {}
  BY <1>1, FS_EmptySet
<1>3. NewestFirst(rows)[1] = CHOOSE r \in rows : Cardinality({o \in rows : o.period > r.period}) = 1 - 1
  BY <1>1 DEF NewestFirst
<1>4. PICK r \in rows : Cardinality({o \in rows : o.period > r.period}) = 1 - 1
  BY <1>2, NewestIs
<1> QED
  BY <1>3, <1>4

(* A runway is told with the source of a cash figure of the book. *)
LEMMA RunwayIs ==
  ASSUME BookOK, NEW current \in SUBSET facts, NEW firm, NEW t \in RunwayText(current, firm)
  PROVE  t.firm = firm /\ \E f \in facts : f.ref = t.ref /\ f.ref # Null /\ f.key = "cash"
<1> DEFINE rows == {r \in current : r.key = "cash"}
           cash == seriesFor(current, "cash")
           burn == seriesFor(current, "burn")
           months == runwayMonthsFromBurns(ValueAt(cash, 1), Window(burn, 1))
           told == {months.num \div months.den, cash[1].value} \cup Written(ValueAt(burn, 1))
<1>1. /\ months # Null /\ cash[1].ref # Null
      /\ t = ShortText(cash[1].ref, firm, "runway", {"runway", "cash", "burn"}, told)
  BY DEF RunwayText
<1>2. t.ref = cash[1].ref /\ t.firm = firm
  <2> HIDE DEF cash, burn, months, told
  <2> QED
    BY <1>1 DEF ShortText
<1>3. ValueAt(cash, 1) # Null
  <2> HIDE DEF cash, burn
  <2> QED
    BY <1>1 DEF runwayMonthsFromBurns, isPresent
<1>4. 1 \in DOMAIN cash
  <2> HIDE DEF cash
  <2> QED
    BY <1>3 DEF ValueAt
<1>5. rows \in SUBSET facts /\ \A r \in rows : r.key = "cash"
  OBVIOUS
<1>6. IsFiniteSet(rows) /\ \A r \in rows : r.period \in Int
  <2> HIDE DEF rows
  <2> QED
    BY <1>5, FS_Subset, AskAssumption DEF BookOK
<1>7. cash = NewestFirst(rows)
  BY DEF seriesFor
<1>8. cash[1] \in rows
  <2> HIDE DEF rows, cash
  <2> QED
    BY <1>4, <1>6, <1>7, SeriesIs
<1> HIDE DEF rows, cash, months, burn
<1> QED
  BY <1>1, <1>2, <1>5, <1>8

(* Citations stand for all of the evidence, and for nothing else. *)
LEMMA CitationsStand ==
  ASSUME NEW evidence, NEW citations \in citationsFrom(evidence)
  PROVE  /\ \A t \in evidence : \E c \in citations : Alike(c, t)
         /\ \A c \in citations : \E t \in evidence : c = Cut(t)
<1> DEFINE Firsts == {texts \in SUBSET evidence :
             /\ \A t \in evidence : \E s \in texts : Alike(s, t) /\ (t \in ask.hits => s \in ask.hits)
             /\ \A s, t \in texts : Alike(s, t) => s = t}
<1>0. citationsFrom(evidence) = {{Cut(t) : t \in first} : first \in Firsts}
  BY DEF citationsFrom
<1>1. PICK first \in Firsts : citations = {Cut(t) : t \in first}
  <2> HIDE DEF Firsts
  <2> QED
    BY <1>0
<1>2. \A s, t : Alike(s, t) => Alike(Cut(s), t)
  BY DEF Alike, Cut
<1> QED
  BY <1>1, <1>2

-----------------------------------------------------------------------------
LEMMA InitAsk == AskInit => AskInv
<1> SUFFICES ASSUME AskInit PROVE AskInv
  OBVIOUS
<1>1. BookOK
  BY FS_EmptySet DEF AskInit, BookOK
<1>2. AskOK
  BY DEF AskInit, AskOK, Asleep
<1>3. turns \in Seq({}) /\ DOMAIN turns = {}
  BY DEF AskInit
<1>4. TurnsOK /\ WaitOK /\ ThreadIsSourced
  BY <1>3 DEF AskInit, TurnsOK, WaitOK, ThreadIsSourced
<1> QED
  BY <1>1, <1>2, <1>4 DEF AskInit, AskInv

(* What may be cited stays so. *)
LEMMA CitableStays ==
  ASSUME facts \subseteq facts', chunks \subseteq chunks'
  PROVE  \A q, c : Citable(q, c) => Citable(q, c)'
BY DEF Citable, InBook, Within, FactText, ShortText, Written

LEMMA BookStays ==
  ASSUME BookOK, [AskNext]_askVars
  PROVE  BookOK' /\ facts \subseteq facts' /\ chunks \subseteq chunks'
<1>1. ASSUME UNCHANGED <<facts, chunks>> PROVE BookOK' /\ facts \subseteq facts' /\ chunks \subseteq chunks'
  BY <1>1 DEF BookOK
<1>2. ASSUME NEW f \in Facts, BookFact(f) PROVE BookOK' /\ facts \subseteq facts' /\ chunks \subseteq chunks'
  BY <1>2, FS_AddElement DEF BookFact, BookOK
<1>3. ASSUME NEW c \in Chunks, Index(c) PROVE BookOK' /\ facts \subseteq facts' /\ chunks \subseteq chunks'
  BY <1>3 DEF Index, BookOK
<1>4. ASSUME NEW q, Submit(q) PROVE UNCHANGED <<facts, chunks>>
  BY <1>4 DEF Submit, AskChunks
<1>5. ASSUME NEW n, Complete(n) PROVE UNCHANGED <<facts, chunks>>
  BY <1>5 DEF Complete
<1>6. CASE PageGivesUp \/ resetChat \/ AskFacts \/ Decide \/ ModelFails
  BY <1>1, <1>6 DEF PageGivesUp, resetChat, AskFacts, Decide, ModelFails
<1>7. CASE Quote
  BY <1>1, <1>5, <1>7 DEF Quote
<1>8. CASE UNCHANGED askVars
  BY <1>1, <1>8 DEF askVars
<1> QED
  BY <1>1, <1>2, <1>3, <1>4, <1>5, <1>6, <1>7, <1>8 DEF AskNext

(* The answer is recorded: what it holds stands in the evidence. *)
LEMMA RecordIs ==
  ASSUME AskInv, ask.stage # "idle", NEW refused \in BOOLEAN, NEW answer,
         LET evidence == filterEvidenceByTokens
         IN /\ ~refused => evidence # {} /\ answer \cup ask.q.numbers \subseteq NumbersIn(evidence)
            /\ Record(refused, evidence, answer),
         UNCHANGED <<facts, chunks>>
  PROVE  AskInv'
<1> DEFINE evidence == filterEvidenceByTokens
<1>1. evidence \subseteq ask.found \cup ask.hits
  BY DEF filterEvidenceByTokens
<1>2. QuestionOK(ask.q) /\ \A c \in evidence : Citable(ask.q, c)
  BY <1>1 DEF AskInv, AskOK
<1> DEFINE Recorded(citations) ==
             /\ queries' = queries \cup {[q |-> ask.q, refused |-> refused, citations |-> citations,
                                          evidence |-> evidence, answer |-> answer]}
             /\ turns' = IF waiting THEN Append(turns, AskTurn(refused, evidence, citations, answer)) ELSE turns
<1>r. PICK citations \in citationsFrom(evidence) : Recorded(citations)
  BY DEF Record
<1> DEFINE turn == AskTurn(refused, evidence, citations, answer)
<1>c. /\ \A t \in evidence : \E c \in citations : Alike(c, t)
      /\ \A c \in citations : \E t \in evidence : c = Cut(t)
  <2> HIDE DEF evidence
  <2> QED
    BY <1>r, CitationsStand
<1>3. BookOK'
  BY DEF AskInv, BookOK
<1>4. AskOK'
  BY DEF Record, Asleep, AskOK
<1>5. \A q, c : Citable(q, c) => Citable(q, c)'
  BY CitableStays
<1>6. \A a \in queries' : QueryOK(a)'
  <2> DEFINE new == [q |-> ask.q, refused |-> refused, citations |-> citations,
                      evidence |-> evidence, answer |-> answer]
  <2>1. queries' = queries \cup {new}
    BY <1>r
  <2>2. \A a : QueryOK(a) => QueryOK(a)'
    BY <1>5 DEF QueryOK, QuestionOK, NumbersIn, SourcesCited, Alike, Cut
  <2>3. /\ new.q = ask.q /\ new.refused = refused /\ new.evidence = evidence /\ new.answer = answer
        /\ new.citations = citations
    OBVIOUS
  <2>4. QueryOK(new)
    <3>1. SourcesCited(new)
      <4> HIDE DEF new, evidence
      <4> QED
        BY <1>c, <2>3 DEF SourcesCited
    <3> HIDE DEF new, evidence
    <3> QED
      BY <1>2, <1>c, <2>3, <3>1 DEF QueryOK, evidence
  <2> HIDE DEF new
  <2> QED
    BY <2>1, <2>2, <2>4 DEF AskInv
<1>7. WaitOK'
  BY DEF Record, WaitOK
<1>8. CASE ~waiting
  <2>1. turns' = turns
    BY <1>8, <1>r
  <2>2. TurnsOK' /\ ThreadIsSourced'
    BY <2>1 DEF AskInv, TurnsOK, ThreadIsSourced, SourcesCited, Alike, Cut, NumbersIn
  <2> QED
    BY <1>3, <1>4, <1>6, <1>7, <2>2 DEF AskInv
<1>9. CASE waiting
  <2>1. turns' = Append(turns, turn)
    BY <1>9, <1>r
  <2>2. PICK S : turns \in Seq(S)
    BY DEF AskInv, TurnsOK
  <2>3. turns \in Seq(S \cup {turn})
    BY <2>2
  <2>4. /\ turns' \in Seq(S \cup {turn}) /\ Len(turns') = Len(turns) + 1 /\ Len(turns) \in Nat
        /\ \A i \in 1..Len(turns) : turns'[i] = turns[i]
        /\ turns'[Len(turns) + 1] = turn
    <3> HIDE DEF turn
    <3> QED
      BY <2>1, <2>3, AppendProperties, LenProperties
  <2>5. DOMAIN turns = 1..Len(turns) /\ DOMAIN turns' = 1..(Len(turns) + 1)
    BY <2>3, <2>4, LenProperties
  <2>6. turn.by = "ask" /\ turn.refused = refused /\ turn.numbers = answer /\ turn.evidence = evidence
        /\ turn.citations = citations
    BY DEF AskTurn
  <2>s. SourcesCited(turn)
    <3> HIDE DEF turn, evidence
    <3> QED
      BY <1>c, <2>6 DEF SourcesCited
  <2> HIDE DEF turn, evidence
  <2>7. ASSUME NEW i \in DOMAIN turns', turns'[i].by = "ask"
        PROVE  /\ SourcesCited(turns'[i]) /\ (i = 1 \/ turns'[i - 1].by = "user")
               /\ ~turns'[i].refused =>
                    \A j \in DOMAIN turns' : j \in (i - 5)..i => turns'[j].numbers \subseteq NumbersIn(turns'[i].evidence)
    <3>1. CASE i \in DOMAIN turns
      <4>1. turns'[i] = turns[i] /\ (i = 1 \/ (i - 1 \in DOMAIN turns /\ turns'[i - 1] = turns[i - 1]))
        BY <2>4, <2>5, <3>1
      <4>2. \A j \in DOMAIN turns' : j \in (i - 5)..i => j \in DOMAIN turns /\ turns'[j] = turns[j]
        BY <2>4, <2>5, <3>1
      <4>3. /\ SourcesCited(turns[i])
            /\ i = 1 \/ turns[i - 1].by = "user"
            /\ ~turns[i].refused =>
                 \A j \in DOMAIN turns : j \in (i - 5)..i => turns[j].numbers \subseteq NumbersIn(turns[i].evidence)
        BY <2>7, <3>1, <4>1 DEF AskInv, ThreadIsSourced
      <4> QED
        BY <4>1, <4>2, <4>3
    <3>2. CASE i \notin DOMAIN turns
      <4>1. i = Len(turns) + 1 /\ turns'[i] = turn
        BY <2>4, <2>5, <3>2
      <4>2. i = 1 \/ turns'[i - 1].by = "user"
        <5>1. CASE i # 1
          <6>1. turns # <<>> /\ i - 1 = Len(turns) /\ turns'[i - 1] = turns[i - 1]
            BY <2>4, <2>5, <4>1, <5>1
          <6> QED
            BY <1>9, <6>1 DEF AskInv, WaitOK
        <5> QED
          BY <5>1
      <4>3. ASSUME ~refused, NEW j \in DOMAIN turns', j \in (i - 5)..i
            PROVE  turns'[j].numbers \subseteq NumbersIn(evidence)
        <5>1. answer \cup ask.q.numbers \subseteq NumbersIn(evidence)
          BY <4>3 DEF evidence
        <5>2. CASE j = i
          BY <2>6, <4>1, <5>1, <5>2
        <5>3. CASE j # i
          <6>1. j \in DOMAIN turns /\ turns'[j] = turns[j] /\ j >= Len(turns) - 4
            BY <2>4, <2>5, <4>1, <4>3, <5>3
          <6>2. turns[j].numbers \subseteq ask.q.numbers
            BY <1>9, <6>1 DEF AskInv, WaitOK
          <6> QED
            BY <5>1, <6>1, <6>2
        <5> QED
          BY <5>2, <5>3
      <4> QED
        BY <2>6, <2>s, <4>1, <4>2, <4>3
    <3> QED
      BY <3>1, <3>2
  <2>8. ThreadIsSourced'
    BY <2>7 DEF ThreadIsSourced, SourcesCited, Alike, Cut, NumbersIn
  <2>9. TurnsOK'
    BY <2>4 DEF TurnsOK
  <2> QED
    BY <1>3, <1>4, <1>6, <1>7, <2>8, <2>9 DEF AskInv
<1> QED
  BY <1>8, <1>9

(* What the page has said last goes to the API with the question. *)
LEMMA FollowUpIs ==
  ASSUME AskInv, NEW q, q \in Questions \/ q \in listAskHistory
  PROVE  /\ QuestionOK(FollowUp(q)) /\ q.numbers \subseteq FollowUp(q).numbers
         /\ turns # <<>> => NumbersIn(Recent) \subseteq FollowUp(q).numbers
<1>1. QuestionOK(q)
  BY AskAssumption DEF AskInv, QueryOK, QuestionOK, listAskHistory
<1>2. CASE turns = <<>>
  BY <1>1, <1>2 DEF FollowUp
<1>3. CASE turns # <<>>
  <2> DEFINE said == NumbersIn(Recent)
             words == WordsIn(Recent)
  <2>1. FollowUp(q) = [q EXCEPT !.words = @ \cup words \cup {"follow"}, !.numbers = @ \cup said]
    BY <1>3 DEF FollowUp
  <2> HIDE DEF said, words
  <2>2. DOMAIN FollowUp(q) = DOMAIN q /\ FollowUp(q).numbers = q.numbers \cup said
    BY <1>1, <2>1 DEF QuestionOK
  <2>3. QuestionOK(FollowUp(q))
    BY <1>1, <2>2 DEF QuestionOK
  <2> QED
    BY <2>2, <2>3 DEF said
<1> QED
  BY <1>2, <1>3

LEMMA SubmitKeeps ==
  ASSUME AskInv, NEW q, Submit(q)
  PROVE  AskInv'
<1> DEFINE turn == UserTurn(q)
<1>1. PICK S : turns \in Seq(S)
  BY DEF AskInv, TurnsOK
<1>2. turns \in Seq(S \cup {turn})
  BY <1>1
<1>3. /\ turns' \in Seq(S \cup {turn}) /\ Len(turns') = Len(turns) + 1 /\ Len(turns) \in Nat
      /\ \A i \in 1..Len(turns) : turns'[i] = turns[i]
      /\ turns'[Len(turns) + 1] = turn
  <2>1. turns' = Append(turns, turn)
    BY DEF Submit
  <2> HIDE DEF turn
  <2> QED
    BY <2>1, <1>2, AppendProperties, LenProperties
<1>4. DOMAIN turns = 1..Len(turns) /\ DOMAIN turns' = 1..(Len(turns) + 1)
  BY <1>2, <1>3, LenProperties
<1>5. turn.by = "user" /\ turn.numbers = q.numbers
  BY DEF UserTurn
<1> HIDE DEF turn
<1>6. TurnsOK'
  BY <1>3 DEF TurnsOK
<1>7. ASSUME NEW i \in DOMAIN turns', turns'[i].by = "ask"
      PROVE  /\ SourcesCited(turns'[i]) /\ (i = 1 \/ turns'[i - 1].by = "user")
             /\ ~turns'[i].refused =>
                  \A j \in DOMAIN turns' : j \in (i - 5)..i => turns'[j].numbers \subseteq NumbersIn(turns'[i].evidence)
  <2>1. i \in DOMAIN turns
    BY <1>3, <1>4, <1>5, <1>7
  <2>2. turns'[i] = turns[i] /\ (i = 1 \/ (i - 1 \in DOMAIN turns /\ turns'[i - 1] = turns[i - 1]))
    BY <1>3, <1>4, <2>1
  <2>3. \A j \in DOMAIN turns' : j \in (i - 5)..i => j \in DOMAIN turns /\ turns'[j] = turns[j]
    BY <1>3, <1>4, <2>1
  <2>4. /\ SourcesCited(turns[i])
        /\ i = 1 \/ turns[i - 1].by = "user"
        /\ ~turns[i].refused =>
             \A j \in DOMAIN turns : j \in (i - 5)..i => turns[j].numbers \subseteq NumbersIn(turns[i].evidence)
    BY <1>7, <2>1, <2>2 DEF AskInv, ThreadIsSourced
  <2> QED
    BY <2>2, <2>3, <2>4
<1>8. ThreadIsSourced'
  BY <1>7 DEF ThreadIsSourced, SourcesCited, Alike, Cut, NumbersIn
<1>9. facts' = facts /\ chunks' = chunks /\ queries' = queries
  BY DEF Submit, AskChunks
<1>10. BookOK'
  BY <1>9 DEF AskInv, BookOK
<1>11. \A r, c : Citable(r, c) => Citable(r, c)'
  BY <1>9, CitableStays
<1>12. \A a \in queries' : QueryOK(a)'
  BY <1>9, <1>11 DEF AskInv, QueryOK, QuestionOK, NumbersIn, SourcesCited, Alike, Cut
<1>13. CASE UNCHANGED <<facts, chunks, ask, queries, waiting>>
  <2>1. AskOK'
    BY <1>11, <1>13 DEF AskInv, AskOK, QuestionOK, filterEvidenceByTokens, Overlaps
  <2>2. WaitOK'
    BY <1>13 DEF Submit, WaitOK
  <2> QED
    BY <1>6, <1>8, <1>10, <1>12, <2>1, <2>2 DEF AskInv
<1>14. CASE AskChunks(FollowUp(q)) /\ waiting' = TRUE
  <2> DEFINE full == FollowUp(q)
             said == NumbersIn(Recent)
  <2>1. QuestionOK(full) /\ q.numbers \subseteq full.numbers /\ (turns # <<>> => said \subseteq full.numbers)
    <3>1. q \in Questions \/ q \in listAskHistory
      BY DEF Submit
    <3> QED
      BY <3>1, FollowUpIs
  <2>2. PICK taken : /\ taken \subseteq {c \in chunks : Within(full, c)}
                     /\ ask' = [stage |-> "facts", q |-> full, found |-> taken, hits |-> {}]
    BY <1>14 DEF AskChunks, Taken
  <2>4. AskOK'
    <3> HIDE DEF full
    <3>1. ask'.stage = "facts" /\ ask'.q = full /\ ask'.found = taken /\ ask'.hits = {}
      BY <2>2
    <3>2. DOMAIN ask' = {"stage", "q", "found", "hits"} /\ ask' = [x \in DOMAIN ask' |-> ask'[x]]
      BY <2>2
    <3>3. \A c \in taken : c \in chunks' /\ (full.firm = Null \/ c.firm = full.firm)
      BY <1>9, <2>2 DEF Within
    <3>4. QuestionOK(ask.q)'
      BY <2>1, <3>1 DEF QuestionOK
    <3>5. \A c \in (ask.found)' \cup (ask.hits)' : Citable(ask.q, c)'
      BY <3>1, <3>3 DEF Citable, InBook, Within
    <3> QED
      BY <3>1, <3>2, <3>4, <3>5 DEF AskOK
  <2>5. ask'.q = full
    BY <2>2
  <2>6. ASSUME NEW j \in DOMAIN turns', j >= Len(turns') - 4
        PROVE  turns'[j].numbers \subseteq ask'.q.numbers
    <3> HIDE DEF full, said
    <3>1. CASE j = Len(turns) + 1
      BY <1>3, <1>5, <2>1, <2>5, <3>1
    <3>2. CASE j # Len(turns) + 1
      <4>1. j \in DOMAIN turns /\ turns'[j] = turns[j] /\ j > Len(turns) - 4
        BY <1>3, <1>4, <2>6, <3>2
      <4>2. turns[j] \in Recent
        BY <4>1 DEF Recent
      <4>3. turns[j].numbers \subseteq said
        BY <4>2 DEF said, NumbersIn
      <4>4. turns # <<>>
        BY <1>4, <4>1
      <4> QED
        BY <2>1, <2>5, <4>1, <4>3, <4>4
    <3> QED
      BY <3>1, <3>2
  <2>7. WaitOK'
    <3> HIDE DEF full
    <3> QED
      BY <1>3, <1>5, <2>6 DEF WaitOK
  <2> QED
    BY <1>6, <1>8, <1>10, <1>12, <2>4, <2>7 DEF AskInv
<1> QED
  BY <1>13, <1>14 DEF Submit

(* The facts that are taken, and the runways, are within the question. *)
LEMMA AskFactsKeeps ==
  ASSUME AskInv, AskFacts
  PROVE  AskInv'
<1>1. /\ facts' = facts /\ chunks' = chunks /\ queries' = queries /\ turns' = turns /\ waiting' = waiting
      /\ ask.stage = "facts"
  BY DEF AskFacts, page
<1>2. PICK taken \in SUBSET factHits(ask.q), current \in SUBSET facts :
        ask' = [ask EXCEPT !.stage = "decide",
                  !.hits = {FactText(f) : f \in {x \in taken : x.ref # Null}} \cup Runways(ask.q, current)]
  BY DEF AskFacts, Taken
<1> DEFINE runways == Runways(ask.q, current)
<1> DEFINE texts == {FactText(f) : f \in {x \in taken : x.ref # Null}}
<1>3. \A c \in texts : Citable(ask.q, c)
  <2> SUFFICES ASSUME NEW f \in taken, f.ref # Null PROVE Citable(ask.q, FactText(f))
    OBVIOUS
  <2>1. f \in facts /\ Within(ask.q, f)
    BY <1>2 DEF factHits
  <2>2. FactText(f).ref = f.ref /\ FactText(f).firm = f.firm
    BY DEF FactText, ShortText
  <2>3. Within(ask.q, FactText(f))
    BY <2>1, <2>2 DEF Within
  <2> QED
    BY <2>1, <2>2, <2>3 DEF Citable, InBook
<1>4. \A c \in runways : Citable(ask.q, c)
  <2> SUFFICES ASSUME NEW firm, ask.q.firm \in {Null, firm}, NEW c \in RunwayText(OfFirm(current, firm), firm)
               PROVE  Citable(ask.q, c)
    BY DEF Runways
  <2>0. OfFirm(current, firm) \in SUBSET facts
    BY DEF OfFirm
  <2>1. c.firm = firm /\ \E f \in facts : f.ref = c.ref /\ f.ref # Null /\ f.key = "cash"
    BY <2>0, RunwayIs DEF AskInv
  <2>2. Within(ask.q, c)
    BY <2>1 DEF Within
  <2> QED
    BY <2>1, <2>2 DEF Citable, InBook
<1> HIDE DEF texts, runways
<1>5. /\ ask'.stage = "decide" /\ ask'.q = ask.q /\ ask'.found = ask.found /\ ask'.hits = texts \cup runways
      /\ DOMAIN ask' = {"stage", "q", "found", "hits"}
  <2>1. DOMAIN ask = {"stage", "q", "found", "hits"}
    BY DEF AskInv, AskOK
  <2>2. ask' = [ask EXCEPT !.stage = "decide", !.hits = texts \cup runways]
    BY <1>2 DEF texts, runways
  <2> QED
    BY <2>1, <2>2
<1>6. ask' = [x \in DOMAIN ask' |-> ask'[x]]
  BY <1>2
<1>7. \A q, c : Citable(q, c) => Citable(q, c)'
  BY <1>1, CitableStays
<1>8. AskOK'
  <2>1. QuestionOK(ask.q)'
    BY <1>1, <1>5 DEF AskInv, AskOK, QuestionOK
  <2>2. \A c \in ask.found \cup texts \cup runways : Citable(ask.q, c)
    BY <1>1, <1>3, <1>4 DEF AskInv, AskOK
  <2>3. \A c \in (ask.found)' \cup (ask.hits)' : Citable(ask.q, c)'
    BY <1>1, <1>5, <2>2 DEF Citable, InBook, Within, FactText, ShortText, Written
  <2> QED
    BY <1>5, <1>6, <2>1, <2>3 DEF AskOK
<1>9. BookOK' /\ TurnsOK' /\ ThreadIsSourced'
  BY <1>1 DEF AskInv, BookOK, TurnsOK, ThreadIsSourced, SourcesCited, Alike, Cut, NumbersIn
<1>10. WaitOK'
  BY <1>1, <1>5 DEF AskInv, WaitOK
<1>11. \A a \in queries' : QueryOK(a)'
  BY <1>1, <1>7 DEF AskInv, QueryOK, QuestionOK, NumbersIn, SourcesCited, Alike, Cut
<1> QED
  BY <1>8, <1>9, <1>10, <1>11 DEF AskInv

LEMMA CompleteKeeps ==
  ASSUME AskInv, NEW answer, Complete(answer)
  PROVE  AskInv'
<1> DEFINE evidence == filterEvidenceByTokens
           grounded == refuseUnsourcedDigits(evidence, answer, ask.q.numbers)
           kept == IF grounded THEN answer ELSE {}
<1>1. ask.stage = "ask" /\ Record(~grounded, evidence, kept) /\ UNCHANGED <<facts, chunks>>
  BY DEF Complete
<1>2. evidence # {} /\ (grounded => kept \cup ask.q.numbers \subseteq NumbersIn(evidence))
  BY <1>1 DEF AskInv, AskOK, refuseUnsourcedDigits
<1>3. (~grounded) \in BOOLEAN
  BY DEF refuseUnsourcedDigits
<1> HIDE DEF grounded, kept
<1> QED
  BY <1>1, <1>2, <1>3, RecordIs

LEMMA AskStep == AskInv /\ [AskNext]_askVars => AskInv'
<1> SUFFICES ASSUME AskInv, [AskNext]_askVars PROVE AskInv'
  OBVIOUS
<1>1. BookOK' /\ \A q, c : Citable(q, c) => Citable(q, c)'
  BY BookStays, CitableStays DEF AskInv
<1>2. ASSUME UNCHANGED queries PROVE \A a \in queries' : QueryOK(a)'
  BY <1>1, <1>2 DEF AskInv, QueryOK, QuestionOK, NumbersIn, SourcesCited, Alike, Cut
<1>3. ASSUME UNCHANGED ask PROVE AskOK'
  BY <1>1, <1>3 DEF AskInv, AskOK, QuestionOK, filterEvidenceByTokens, Overlaps
<1>4. ASSUME UNCHANGED turns PROVE TurnsOK' /\ ThreadIsSourced'
  BY <1>4 DEF AskInv, TurnsOK, ThreadIsSourced, SourcesCited, Alike, Cut, NumbersIn
<1>5. CASE (\E f \in Facts : BookFact(f)) \/ (\E c \in Chunks : Index(c)) \/ UNCHANGED askVars
  <2>1. UNCHANGED <<ask, queries, turns, waiting>>
    BY <1>5 DEF BookFact, Index, askVars, page
  <2>2. WaitOK'
    BY <2>1 DEF AskInv, WaitOK
  <2> QED
    BY <1>1, <1>2, <1>3, <1>4, <2>1, <2>2 DEF AskInv
<1>6. CASE \E q \in Questions \cup listAskHistory : Submit(q)
  BY <1>6, SubmitKeeps
<1>7. CASE PageGivesUp
  <2>1. UNCHANGED <<ask, queries, turns>> /\ WaitOK'
    BY <1>7 DEF PageGivesUp, WaitOK
  <2> QED
    BY <1>1, <1>2, <1>3, <1>4, <2>1 DEF AskInv
<1>8. CASE resetChat
  <2>1. UNCHANGED <<ask, queries, waiting>> /\ turns' = <<>>
    BY <1>8 DEF resetChat
  <2>2. turns' \in Seq({}) /\ DOMAIN turns' = {}
    BY <2>1
  <2>3. TurnsOK' /\ WaitOK' /\ ThreadIsSourced'
    BY <2>1, <2>2 DEF TurnsOK, WaitOK, ThreadIsSourced
  <2> QED
    BY <1>1, <1>2, <1>3, <2>1, <2>3 DEF AskInv
<1>9. CASE AskFacts
  BY <1>9, AskFactsKeeps
<1>10. CASE Decide
  <2>1. ask.stage = "decide" /\ UNCHANGED <<facts, chunks>>
    BY <1>10 DEF Decide
  <2>2. CASE /\ filterEvidenceByTokens # {}
             /\ ask' = [ask EXCEPT !.stage = "ask"] /\ UNCHANGED <<queries, page>>
    <3>1. /\ ask'.stage = "ask" /\ ask'.q = ask.q /\ ask'.found = ask.found /\ ask'.hits = ask.hits
          /\ DOMAIN ask' = {"stage", "q", "found", "hits"} /\ ask' = [x \in DOMAIN ask' |-> ask'[x]]
      BY <2>2 DEF AskInv, AskOK
    <3>2. filterEvidenceByTokens' = filterEvidenceByTokens
      BY <3>1 DEF filterEvidenceByTokens, Overlaps
    <3>3. QuestionOK(ask.q)'
      BY <2>1, <3>1 DEF AskInv, AskOK, QuestionOK
    <3>4. \A c \in (ask.found)' \cup (ask.hits)' : Citable(ask.q, c)'
      BY <2>1, <3>1 DEF AskInv, AskOK, Citable, InBook, Within, FactText, ShortText, Written
    <3>5. AskOK'
      BY <2>2, <3>1, <3>2, <3>3, <3>4 DEF AskOK
    <3>6. UNCHANGED <<queries, turns, waiting>>
      BY <2>2 DEF page
    <3>7. WaitOK'
      BY <3>1, <3>6 DEF AskInv, WaitOK
    <3> QED
      BY <1>1, <1>2, <1>4, <3>5, <3>6, <3>7 DEF AskInv
  <2>3. CASE Record(TRUE, filterEvidenceByTokens, {})
    BY <2>1, <2>3, RecordIs
  <2> QED
    BY <1>10, <2>2, <2>3 DEF Decide
<1>11. CASE Quote
  BY <1>11, CompleteKeeps DEF Quote
<1>12. CASE ModelFails
  <2>1. UNCHANGED <<queries, turns>> /\ AskOK' /\ WaitOK'
    BY <1>12 DEF ModelFails, Asleep, AskOK, WaitOK
  <2> QED
    BY <1>1, <1>2, <1>4, <2>1 DEF AskInv
<1>13. CASE \E n \in Completions : Complete(n)
  BY <1>13, CompleteKeeps
<1> QED
  BY <1>5, <1>6, <1>7, <1>8, <1>9, <1>10, <1>11, <1>12, <1>13 DEF AskNext

(* Every number of an answer, and of the question it answers, stands in a  *)
(* text of the book and of the company that was asked about, whose source  *)
(* the answer cites, and in the thread an answer stands below its          *)
(* question: whatever is confirmed or indexed meanwhile, whichever texts   *)
(* the citations drop, however the page gives up or starts a new chat      *)
(* (POST /api/ask, citationsFrom, the Ask page).                           *)
THEOREM AnswersHaveSources == AskSpec => []AnswersAreSourced
<1>1. AskInv => AnswersAreSourced
  BY DEF AskInv, QueryOK, Citable, AnswersAreSourced
<1> QED
  BY InitAsk, AskStep, <1>1, PTL DEF AskSpec
=============================================================================
