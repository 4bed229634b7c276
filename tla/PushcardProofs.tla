--------------------------- MODULE PushcardProofs ---------------------------
(***************************************************************************)
(* Proofs about the stamp card: for any number of clients, employees,      *)
(* codes and handlers, and any list limit.                                 *)
(***************************************************************************)
EXTENDS Pushcard, FiniteSetTheorems, SequenceTheorems, TLAPS

(***************************************************************************)
(* TypeOK is not inductive: a handler writes the card, the client and the  *)
(* employee its job holds.  A card that exists goes on existing, so a job  *)
(* that fits goes on fitting while others open cards.                      *)
(***************************************************************************)
CardPCs == {"cancelCard", "insertStamp", "countStamps", "completeCard",
            "setCode", "markRedeemed", "getCard", "deleteStamp", "reopenCard"}

ClientPCs == {"getOpenCard", "cancelCard", "openCard", "insertStamp",
              "countStamps", "listCards", "setCode", "markRedeemed",
              "deleteStamp", "reopenCard"}

(* What a handler that is at step s holds when there are n cards. *)
JobFits(s, j, n) ==
    /\ s \in CardPCs => j.card \in 1..n
    /\ s \in ClientPCs => j.client \in Clients
    /\ s \in {"openCard", "insertStamp"} => j.by \in Collaborators
    /\ s \in {"getOpenCard", "cancelCard"} =>
           (j.op = "stamp" => j.by \in Collaborators)
    /\ s = "markRedeemed" => j.code \in Codes

JobsOK == \A p \in Procs : JobFits(pc[p], job[p], Len(card))

RowsOK ==
    /\ \A i \in DOMAIN stamp : stamp[i].card \in 1..Len(card)
    /\ \A k \in Codes : code[k] # NoCode => code[k].card \in 1..Len(card)
    /\ \A i \in DOMAIN delivered : delivered[i].card \in 1..Len(card)

TypeInv == TypeOK /\ RowsOK /\ JobsOK

(* How a step may change the cards: along the lifecycle, or by opening one *)
(* for a client who has none.                                              *)
CardsMove ==
    /\ card' \in Seq(Card)
    /\ Len(card') = Len(card) \/ \E c \in Clients : InsertCard(c)
    /\ Len(card) <= Len(card')
    /\ \A k \in DOMAIN card :
          /\ card'[k].client = card[k].client
          /\ card'[k].status \in MayBecome[card[k].status]

LEMMA NoJobType == NoJob \in Job
BY DEF NoJob, Job

LEMMA NoJobFits == ASSUME NEW n PROVE JobFits("idle", NoJob, n)
BY DEF JobFits, CardPCs, ClientPCs

LEMMA CardRows ==
    ASSUME TypeOK
    PROVE  /\ Len(card) \in Nat
           /\ DOMAIN card = 1..Len(card)
           /\ \A k \in 1..Len(card) : card[k] \in Card
           /\ IsFiniteSet(DOMAIN card)
<1>1. card \in Seq(Card)
    BY DEF TypeOK
<1>2. /\ Len(card) \in Nat
      /\ DOMAIN card = 1..Len(card)
    BY <1>1, LenProperties
<1>3. \A k \in 1..Len(card) : card[k] \in Card
    BY <1>1, ElementOfSeq
<1>4. IsFiniteSet(1..Len(card))
    BY <1>2, FS_Interval
<1> QED BY <1>2, <1>3, <1>4

(* A card stays within its lifecycle. *)
LEMMA MayStay == ASSUME NEW r \in Card PROVE r.status \in MayBecome[r.status]
BY DEF Card, MayBecome

(* The ways a statement changes the cards. *)

LEMMA SameCardsMove ==
    ASSUME TypeOK, UNCHANGED card
    PROVE  CardsMove
<1>1. \A k \in DOMAIN card : card[k].status \in MayBecome[card[k].status]
    BY CardRows, MayStay
<1>2. Len(card) <= Len(card)
    BY CardRows
<1> QED BY <1>1, <1>2 DEF CardsMove, TypeOK

LEMMA RewriteMove ==
    ASSUME TypeOK, NEW k \in 1..Len(card), NEW r \in Card,
           card' = [card EXCEPT ![k] = r],
           r.client = card[k].client, r.status \in MayBecome[card[k].status]
    PROVE  CardsMove
<1>1. card \in Seq(Card)
    BY DEF TypeOK
<1>2. /\ card' \in Seq(Card)
      /\ Len(card') = Len(card)
      /\ \A j \in 1..Len(card) : card'[j] = IF j = k THEN r ELSE card[j]
    BY <1>1, ExceptSeq
<1>3. ASSUME NEW j \in DOMAIN card
      PROVE  /\ card'[j].client = card[j].client
             /\ card'[j].status \in MayBecome[card[j].status]
    <2>1. j \in 1..Len(card) /\ card[j] \in Card
        BY CardRows
    <2>2. card[j].status \in MayBecome[card[j].status]
        BY <2>1, MayStay
    <2> QED BY <1>2, <2>1, <2>2
<1>4. Len(card) <= Len(card')
    BY <1>2, CardRows
<1> QED BY <1>2, <1>3, <1>4 DEF CardsMove

LEMMA SetStatusMove ==
    ASSUME TypeOK, NEW k \in 1..Len(card),
           \/ SetStatus(k, "open", "cancelled")
           \/ SetStatus(k, "completed", "redeemed")
    PROVE  CardsMove
<1> DEFINE Row(from, to) ==
        [card[k] EXCEPT !.status = IF card[k].status = from THEN to ELSE card[k].status]
<1>1. card[k] \in Card
    BY CardRows
<1>2. CASE SetStatus(k, "open", "cancelled")
    <2>1. card' = [card EXCEPT ![k] = Row("open", "cancelled")]
        BY <1>2 DEF SetStatus
    <2>2. /\ Row("open", "cancelled") \in Card
          /\ Row("open", "cancelled").client = card[k].client
          /\ Row("open", "cancelled").status \in MayBecome[card[k].status]
        BY <1>1 DEF Card, MayBecome
    <2> HIDE DEF Row
    <2> QED BY <2>1, <2>2, RewriteMove
<1>3. CASE SetStatus(k, "completed", "redeemed")
    <2>1. card' = [card EXCEPT ![k] = Row("completed", "redeemed")]
        BY <1>3 DEF SetStatus
    <2>2. /\ Row("completed", "redeemed") \in Card
          /\ Row("completed", "redeemed").client = card[k].client
          /\ Row("completed", "redeemed").status \in MayBecome[card[k].status]
        BY <1>1 DEF Card, MayBecome
    <2> HIDE DEF Row
    <2> QED BY <2>1, <2>2, RewriteMove
<1> QED BY <1>2, <1>3

LEMMA CompletedRow ==
    ASSUME NEW r \in Card, NEW n \in Nat
    PROVE  /\ [r EXCEPT !.status = "completed", !.at = n] \in Card
           /\ [r EXCEPT !.status = "completed", !.at = n].client = r.client
           /\ [r EXCEPT !.status = "completed", !.at = n].status = "completed"
<1>1. [r EXCEPT !.status = "completed"] \in Card
    BY DEF Card
<1> QED BY <1>1 DEF Card

LEMMA CompleteMove ==
    ASSUME TypeOK, NEW k \in 1..Len(card), CompleteIfOpen(k)
    PROVE  CardsMove
<1> DEFINE Done == {j \in DOMAIN card : card[j].at > 0}
           n == Cardinality(Done) + 1
           Row == [card[k] EXCEPT !.status = "completed", !.at = n]
<1>1. CASE card[k].status # "open"
    BY <1>1, SameCardsMove DEF CompleteIfOpen
<1>2. CASE card[k].status = "open"
    <2>1. card[k] \in Card
        BY CardRows
    <2>2. n \in Nat
        <3>1. IsFiniteSet(Done)
            BY CardRows, FS_Subset
        <3> HIDE DEF Done
        <3>2. Cardinality(Done) \in Nat
            BY <3>1, FS_CardinalityType
        <3> QED BY <3>2
    <2>3. card' = [card EXCEPT ![k] = Row]
        BY <1>2 DEF CompleteIfOpen
    <2> HIDE DEF n
    <2>4. /\ Row \in Card
          /\ Row.client = card[k].client
          /\ Row.status \in MayBecome[card[k].status]
        <3>1. "completed" \in MayBecome[card[k].status]
            BY <1>2 DEF MayBecome
        <3> HIDE DEF Row
        <3> QED BY <2>1, <2>2, <3>1, CompletedRow DEF Row
    <2> HIDE DEF Row
    <2> QED BY <2>3, <2>4, RewriteMove
<1> QED BY <1>1, <1>2

LEMMA InsertMove ==
    ASSUME TypeOK, NEW c \in Clients, InsertCard(c)
    PROVE  CardsMove /\ Len(card') = Len(card) + 1
<1> DEFINE row == [client |-> c, status |-> "open", at |-> 0]
<1>1. row \in Card
    BY DEF Card
<1>2. card \in Seq(Card) /\ Len(card) \in Nat
    BY CardRows DEF TypeOK
<1>3. card' = Append(card, row)
    BY DEF InsertCard
<1> HIDE DEF row
<1>4. /\ card' \in Seq(Card)
      /\ Len(card') = Len(card) + 1
      /\ \A j \in 1..Len(card) : card'[j] = card[j]
    BY <1>1, <1>2, <1>3, AppendProperties
<1>5. \A k \in DOMAIN card :
          /\ card'[k].client = card[k].client
          /\ card'[k].status \in MayBecome[card[k].status]
    BY <1>4, CardRows, MayStay
<1>6. Len(card) <= Len(card')
    BY <1>2, <1>4
<1> QED BY <1>4, <1>5, <1>6 DEF CardsMove

-----------------------------------------------------------------------------
(* What a step must show for the types to hold after it *)

LEMMA FitsLonger ==
    ASSUME NEW s, NEW j, NEW m \in Nat, NEW n \in Nat, m <= n, JobFits(s, j, m)
    PROVE  JobFits(s, j, n)
<1>1. 1..m \subseteq 1..n
    OBVIOUS
<1> QED BY <1>1 DEF JobFits

LEMMA CardsMoveLen ==
    ASSUME TypeOK, CardsMove
    PROVE  /\ Len(card) \in Nat /\ Len(card') \in Nat
           /\ Len(card) <= Len(card')
           /\ 1..Len(card) \subseteq 1..Len(card')
           /\ DOMAIN card = 1..Len(card)
           /\ DOMAIN card' = 1..Len(card')
<1>1. Len(card) \in Nat /\ DOMAIN card = 1..Len(card)
    BY CardRows
<1>2. Len(card') \in Nat /\ DOMAIN card' = 1..Len(card')
    BY LenProperties DEF CardsMove
<1>3. Len(card) <= Len(card')
    BY DEF CardsMove
<1>4. 1..Len(card) \subseteq 1..Len(card')
    BY <1>1, <1>2, <1>3
<1> QED BY <1>1, <1>2, <1>3, <1>4

(* One handler goes on with a job that fits. *)
LEMMA JobsMove ==
    ASSUME TypeInv, CardsMove, NEW p \in Procs, NEW s \in PCs, NEW j \in Job,
           GotoWith(p, s, j), JobFits(s, j, Len(card'))
    PROVE  pc' \in [Procs -> PCs] /\ job' \in [Procs -> Job] /\ JobsOK'
<1>1. pc' \in [Procs -> PCs] /\ job' \in [Procs -> Job]
    BY DEF TypeInv, TypeOK, GotoWith
<1>2. ASSUME NEW q \in Procs PROVE JobFits(pc'[q], job'[q], Len(card'))
    <2>1. CASE q = p
        BY <2>1 DEF TypeInv, TypeOK, GotoWith
    <2>2. CASE q # p
        <3>1. pc'[q] = pc[q] /\ job'[q] = job[q]
            BY <2>2 DEF TypeInv, TypeOK, GotoWith
        <3>2. JobFits(pc[q], job[q], Len(card))
            BY DEF TypeInv, JobsOK
        <3>3. Len(card) \in Nat /\ Len(card') \in Nat /\ Len(card) <= Len(card')
            BY CardsMoveLen DEF TypeInv
        <3> QED BY <3>1, <3>2, <3>3, FitsLonger
    <2> QED BY <2>1, <2>2
<1> QED BY <1>1, <1>2 DEF JobsOK

(* Nobody goes on. *)
LEMMA JobsStay ==
    ASSUME TypeInv, UNCHANGED <<card, pc, job>>
    PROVE  pc' \in [Procs -> PCs] /\ job' \in [Procs -> Job] /\ JobsOK'
BY DEF TypeInv, TypeOK, JobsOK

LEMMA RowsMove ==
    ASSUME TypeInv, CardsMove, UNCHANGED <<stamp, code, delivered>>
    PROVE  RowsOK'
<1>1. 1..Len(card) \subseteq 1..Len(card')
    BY CardsMoveLen DEF TypeInv
<1> QED BY <1>1 DEF TypeInv, RowsOK

LEMMA GotoIsGotoWith ==
    ASSUME TypeOK, NEW p \in Procs, NEW s, Goto(p, s)
    PROVE  GotoWith(p, s, job[p])
BY DEF TypeOK, Goto, GotoWith

(* A step of one handler that writes the cards at most. *)
LEMMA CardStep ==
    ASSUME TypeInv, CardsMove, NEW p \in Procs, NEW s \in PCs, NEW j \in Job,
           GotoWith(p, s, j), JobFits(s, j, Len(card')),
           UNCHANGED <<config, stamp, undone, code, clocks, counts, history>>
    PROVE  TypeInv'
<1>1. pc' \in [Procs -> PCs] /\ job' \in [Procs -> Job] /\ JobsOK'
    BY JobsMove
<1>2. RowsOK'
    BY RowsMove DEF history
<1>3. card' \in Seq(Card)
    BY DEF CardsMove
<1>4. TypeOK'
    BY <1>1, <1>3 DEF TypeInv, TypeOK, clocks, counts, history
<1> QED BY <1>1, <1>2, <1>4 DEF TypeInv

(* A step of one handler that only reads. *)
LEMMA ReadStep ==
    ASSUME TypeInv, NEW p \in Procs, NEW s \in PCs, NEW j \in Job,
           GotoWith(p, s, j), JobFits(s, j, Len(card)), NoWrite
    PROVE  TypeInv' /\ CardsMove
<1>1. UNCHANGED card /\ UNCHANGED <<config, stamp, undone, code, clocks, counts, history>>
    BY DEF NoWrite, tables
<1>2. CardsMove
    BY <1>1, SameCardsMove DEF TypeInv
<1>3. JobFits(s, j, Len(card'))
    BY <1>1
<1> QED BY <1>1, <1>2, <1>3, CardStep

LEMMA ReadFinish ==
    ASSUME TypeInv, NEW p \in Procs, Finish(p), NoWrite
    PROVE  TypeInv' /\ CardsMove
<1>1. "idle" \in PCs
    BY DEF PCs
<1> QED BY <1>1, NoJobType, NoJobFits, ReadStep DEF Finish

(* A message that arrives. *)
LEMMA BeginStep ==
    ASSUME TypeInv, NEW p \in Procs, NEW s \in PCs, NEW j \in Job,
           Begin(p, s, j), JobFits(s, j, Len(card)),
           code' \in [Codes -> RedemptionCode \cup {NoCode}],
           \A k \in Codes : code'[k] # NoCode => code'[k].card \in 1..Len(card),
           UNCHANGED <<tables, clocks, configUpdates, failures, history>>
    PROVE  TypeInv' /\ CardsMove
<1>1. GotoWith(p, s, j) /\ messages' = messages + 1
    BY DEF Begin, GotoWith
<1>2. CardsMove
    BY SameCardsMove DEF TypeInv, tables
<1>3. JobFits(s, j, Len(card'))
    BY DEF tables
<1>4. pc' \in [Procs -> PCs] /\ job' \in [Procs -> Job] /\ JobsOK'
    BY <1>1, <1>2, <1>3, JobsMove
<1>5. RowsOK'
    BY DEF TypeInv, RowsOK, tables, history
<1>6. TypeOK'
    BY <1>1, <1>4 DEF TypeInv, TypeOK, tables, clocks, history
<1> QED BY <1>2, <1>4, <1>5, <1>6 DEF TypeInv

-----------------------------------------------------------------------------
(* The actions *)

LEMMA ConfigJobType ==
    ASSUME TypeInv, NEW op \in {"check", "redeem", "stamp"}, NEW c \in Clients,
           NEW w \in Collaborators \cup {Nil}, op = "stamp" => w \in Collaborators
    PROVE  /\ ConfigJob(op, c, w) \in Job
           /\ JobFits("getOpenCard", ConfigJob(op, c, w), Len(card))
<1>1. config.slots \in Nat /\ config.expires \in BOOLEAN
    BY ConfigAssumption DEF TypeInv, TypeOK, Config
<1>2. ConfigJob(op, c, w) \in Job
    BY <1>1 DEF ConfigJob, NoJob, Job
<1>3. JobFits("getOpenCard", ConfigJob(op, c, w), Len(card))
    BY DEF ConfigJob, NoJob, JobFits, CardPCs, ClientPCs
<1> QED BY <1>2, <1>3

LEMMA SameCode ==
    ASSUME TypeInv, UNCHANGED code
    PROVE  /\ code' \in [Codes -> RedemptionCode \cup {NoCode}]
           /\ \A k \in Codes : code'[k] # NoCode => code'[k].card \in 1..Len(card)
BY DEF TypeInv, TypeOK, RowsOK

LEMMA TypeArrive ==
    ASSUME TypeInv, NEW p \in Procs, CheckCard(p) \/ Redeem(p) \/ AddStamp(p)
    PROVE  TypeInv' /\ CardsMove
<1>1. "getOpenCard" \in PCs
    BY DEF PCs
<1>2. ASSUME NEW op \in {"check", "redeem", "stamp"}, NEW c \in Clients,
             NEW w \in Collaborators \cup {Nil}, op = "stamp" => w \in Collaborators,
             Begin(p, "getOpenCard", ConfigJob(op, c, w)),
             UNCHANGED <<tables, code, clocks, configUpdates, failures, history>>
      PROVE  TypeInv' /\ CardsMove
    BY <1>1, <1>2, ConfigJobType, SameCode, BeginStep
<1>3. CASE CheckCard(p)
    BY <1>2, <1>3 DEF CheckCard
<1>4. CASE Redeem(p)
    BY <1>2, <1>4 DEF Redeem
<1>5. CASE AddStamp(p)
    BY <1>2, <1>5 DEF AddStamp
<1> QED BY <1>3, <1>4, <1>5

LEMMA JobOf ==
    ASSUME TypeInv, NEW p \in Procs
    PROVE  job[p] \in Job /\ pc[p] \in PCs /\ JobFits(pc[p], job[p], Len(card))
BY DEF TypeInv, TypeOK, JobsOK

(* The client has no open card, or it has just been cancelled. *)
LEMMA TypeWithoutCard ==
    ASSUME TypeInv, CardsMove, NEW p \in Procs,
           pc[p] \in {"getOpenCard", "cancelCard"}, WithoutCard(p),
           UNCHANGED <<config, stamp, undone, code, clocks, counts, history>>
    PROVE  TypeInv'
<1>1. job[p] \in Job /\ JobFits(pc[p], job[p], Len(card))
    BY JobOf
<1>2. {"idle", "listCards", "openCard"} \subseteq PCs
    BY DEF PCs
<1>3. CASE job[p].op = "check" /\ Finish(p)
    BY <1>2, <1>3, NoJobType, NoJobFits, CardStep DEF Finish
<1>4. CASE job[p].op = "redeem" /\ Goto(p, "listCards")
    <2>1. JobFits("listCards", job[p], Len(card'))
        BY <1>1 DEF JobFits, CardPCs, ClientPCs
    <2>2. GotoWith(p, "listCards", job[p])
        BY <1>4, GotoIsGotoWith DEF TypeInv
    <2> QED BY <1>1, <1>2, <2>1, <2>2, CardStep
<1>5. CASE job[p].op = "stamp" /\ Goto(p, "openCard")
    <2>1. JobFits("openCard", job[p], Len(card'))
        BY <1>1, <1>5 DEF JobFits, CardPCs, ClientPCs
    <2>2. GotoWith(p, "openCard", job[p])
        BY <1>5, GotoIsGotoWith DEF TypeInv
    <2> QED BY <1>1, <1>2, <2>1, <2>2, CardStep
<1> QED BY <1>3, <1>4, <1>5 DEF WithoutCard

LEMMA TypeGetOpenCard ==
    ASSUME TypeInv, NEW p \in Procs, GetOpenCard(p)
    PROVE  TypeInv' /\ CardsMove
<1> DEFINE J(k) == [job[p] EXCEPT !.card = k]
<1>1. job[p] \in Job /\ JobFits("getOpenCard", job[p], Len(card)) /\ NoWrite
    BY JobOf DEF GetOpenCard
<1>2. /\ UNCHANGED <<config, stamp, undone, code, clocks, counts, history>>
      /\ CardsMove
    BY <1>1, SameCardsMove DEF NoWrite, tables, TypeInv
<1>3. CASE WithoutCard(p)
    BY <1>2, <1>3, TypeWithoutCard DEF GetOpenCard
<1>4. ASSUME NEW k \in OpenCards(job[p].client),
             NEW s \in {"cancelCard", "insertStamp", "countStamps"},
             s = "insertStamp" => job[p].op = "stamp",
             GotoWith(p, s, J(k))
      PROVE  TypeInv' /\ CardsMove
    <2>1. k \in 1..Len(card) /\ k \in Nat
        BY CardRows DEF OpenCards, TypeInv
    <2>2. J(k) \in Job
        BY <1>1, <2>1 DEF Job
    <2>3. /\ J(k).card = k /\ J(k).client = job[p].client
          /\ J(k).by = job[p].by /\ J(k).op = job[p].op
        BY <1>1 DEF Job
    <2> HIDE DEF J
    <2>4. JobFits(s, J(k), Len(card))
        BY <1>1, <1>4, <2>1, <2>3 DEF JobFits, CardPCs, ClientPCs
    <2>5. s \in PCs
        BY DEF PCs
    <2> QED BY <1>1, <1>4, <2>2, <2>4, <2>5, ReadStep
<1>5. CASE \E k \in OpenCards(job[p].client) :
                IF job[p].expires /\ k \in stale
                THEN GotoWith(p, "cancelCard", J(k))
                ELSE WithCard(p, k)
    BY <1>4, <1>5 DEF WithCard
<1> QED BY <1>2, <1>3, <1>5 DEF GetOpenCard

LEMMA TypeCancelCard ==
    ASSUME TypeInv, NEW p \in Procs, CancelCard(p)
    PROVE  TypeInv' /\ CardsMove
<1>1. job[p].card \in 1..Len(card)
    BY JobOf DEF CancelCard, JobFits, CardPCs
<1>2. CardsMove
    BY <1>1, SetStatusMove DEF CancelCard, TypeInv
<1> QED BY <1>2, TypeWithoutCard DEF CancelCard

LEMMA TypeOpenCard ==
    ASSUME TypeInv, NEW p \in Procs, OpenCard(p)
    PROVE  TypeInv' /\ CardsMove
<1> DEFINE J == [job[p] EXCEPT !.card = Len(card) + 1]
<1>1. /\ job[p] \in Job
      /\ job[p].client \in Clients /\ job[p].by \in Collaborators
    BY JobOf DEF OpenCard, JobFits, ClientPCs
<1>2. {"idle", "insertStamp"} \subseteq PCs
    BY DEF PCs
<1>3. CASE InsertCard(job[p].client) /\ GotoWith(p, "insertStamp", J)
    <2>1. CardsMove /\ Len(card') = Len(card) + 1 /\ Len(card) \in Nat
        BY <1>1, <1>3, InsertMove, CardRows DEF TypeInv
    <2>2. J \in Job
        BY <1>1, <2>1 DEF Job
    <2>3. J.card = Len(card) + 1 /\ J.client = job[p].client /\ J.by = job[p].by
        BY <1>1 DEF Job
    <2> HIDE DEF J
    <2>4. J.card \in 1..Len(card')
        BY <2>1, <2>3
    <2>5. JobFits("insertStamp", J, Len(card'))
        BY <1>1, <2>3, <2>4 DEF JobFits, CardPCs, ClientPCs
    <2> QED BY <1>2, <1>3, <2>1, <2>2, <2>5, CardStep DEF OpenCard
<1>4. CASE Finish(p) /\ UNCHANGED card
    <2>1. CardsMove
        BY <1>4, SameCardsMove DEF TypeInv
    <2> QED BY <1>2, <1>4, <2>1, NoJobType, NoJobFits, CardStep DEF OpenCard, Finish
<1> QED BY <1>3, <1>4 DEF OpenCard

LEMMA TypeInsertStamp ==
    ASSUME TypeInv, NEW p \in Procs, InsertStamp(p)
    PROVE  TypeInv' /\ CardsMove
<1> DEFINE row == [card |-> job[p].card, by |-> job[p].by]
<1>1. job[p] \in Job /\ JobFits("insertStamp", job[p], Len(card))
    BY JobOf DEF InsertStamp
<1>2. job[p].card \in 1..Len(card) /\ job[p].by \in Collaborators
    BY <1>1 DEF JobFits, CardPCs
<1>3. UNCHANGED card /\ CardsMove
    BY SameCardsMove DEF InsertStamp, TypeInv
<1>4. GotoWith(p, "countStamps", job[p])
    BY GotoIsGotoWith DEF InsertStamp, TypeInv
<1>5. JobFits("countStamps", job[p], Len(card'))
    BY <1>1, <1>3 DEF JobFits, CardPCs, ClientPCs
<1>6. "countStamps" \in PCs
    BY DEF PCs
<1>7. pc' \in [Procs -> PCs] /\ job' \in [Procs -> Job] /\ JobsOK'
    BY <1>1, <1>3, <1>4, <1>5, <1>6, JobsMove
<1>8. row \in Stamp /\ stamp' = Append(stamp, row) /\ stamp \in Seq(Stamp)
    <2>1. Len(card) \in Nat
        BY CardRows DEF TypeInv
    <2>2. job[p].card \in Nat \ {0}
        BY <1>2, <2>1
    <2> QED BY <1>2, <2>2 DEF Stamp, InsertStamp, TypeInv, TypeOK
<1>9. row.card \in 1..Len(card)
    BY <1>2
<1> HIDE DEF row
<1>10. /\ stamp' \in Seq(Stamp)
       /\ \A i \in DOMAIN stamp' : stamp'[i].card \in 1..Len(card)
    <2>1. /\ stamp' \in Seq(Stamp)
          /\ Len(stamp') = Len(stamp) + 1 /\ Len(stamp) \in Nat
          /\ DOMAIN stamp = 1..Len(stamp) /\ DOMAIN stamp' = 1..Len(stamp')
          /\ \A i \in 1..Len(stamp) : stamp'[i] = stamp[i]
          /\ stamp'[Len(stamp) + 1] = row
        BY <1>8, AppendProperties, LenProperties
    <2>2. ASSUME NEW i \in DOMAIN stamp' PROVE stamp'[i].card \in 1..Len(card)
        <3>1. i \in 1..Len(stamp) \/ i = Len(stamp) + 1
            BY <2>1
        <3> QED BY <1>9, <2>1, <3>1 DEF TypeInv, RowsOK
    <2> QED BY <2>1, <2>2
<1>11. RowsOK'
    BY <1>3, <1>10 DEF TypeInv, RowsOK, InsertStamp, history
<1>12. TypeOK'
    BY <1>3, <1>7, <1>10 DEF TypeInv, TypeOK, InsertStamp, clocks, counts, history
<1> QED BY <1>3, <1>7, <1>11, <1>12 DEF TypeInv

LEMMA TypeReadCount ==
    ASSUME TypeInv, NEW p \in Procs, ReadCount(p)
    PROVE  TypeInv' /\ CardsMove
<1>1. /\ job[p] \in Job /\ NoWrite
      /\ JobFits("countStamps", job[p], Len(card))
    BY JobOf DEF ReadCount
<1>2. {"completeCard", "listCards"} \subseteq PCs
    BY DEF PCs
<1>3. ASSUME NEW s \in {"completeCard", "listCards"}, Goto(p, s)
      PROVE  TypeInv' /\ CardsMove
    <2>1. GotoWith(p, s, job[p])
        BY <1>3, GotoIsGotoWith DEF TypeInv
    <2>2. JobFits(s, job[p], Len(card))
        BY <1>1 DEF JobFits, CardPCs, ClientPCs
    <2> QED BY <1>1, <1>2, <2>1, <2>2, ReadStep
<1>4. CASE Finish(p)
    BY <1>1, <1>4, ReadFinish
<1> QED BY <1>3, <1>4 DEF ReadCount

(* A handler that writes the cards at most, and is done. *)
LEMMA FinishStep ==
    ASSUME TypeInv, CardsMove, NEW p \in Procs, Finish(p),
           UNCHANGED <<config, stamp, undone, code, clocks, counts, history>>
    PROVE  TypeInv' /\ CardsMove
<1>1. "idle" \in PCs
    BY DEF PCs
<1> QED BY <1>1, NoJobType, NoJobFits, CardStep DEF Finish

LEMMA TypeCompleteCard ==
    ASSUME TypeInv, NEW p \in Procs, CompleteCard(p)
    PROVE  TypeInv' /\ CardsMove
<1>1. job[p].card \in 1..Len(card)
    BY JobOf DEF CompleteCard, JobFits, CardPCs
<1>2. CardsMove
    BY <1>1, CompleteMove DEF CompleteCard, TypeInv
<1> QED BY <1>2, FinishStep DEF CompleteCard

LEMMA TypeUndoLastStamp ==
    ASSUME TypeInv, NEW p \in Procs, UndoLastStamp(p)
    PROVE  TypeInv' /\ CardsMove
<1> DEFINE J(w, i) == [NoJob EXCEPT !.op = "undo", !.by = w, !.stamp = i,
                                    !.card = stamp[i].card]
<1>1. {"idle", "getCard"} \subseteq PCs
    BY DEF PCs
<1>2. UNCHANGED <<tables, code, clocks, configUpdates, failures, history>>
    BY DEF UndoLastStamp
<1>3. ASSUME NEW w \in Collaborators, NEW i \in LastStamps(w),
             Begin(p, "getCard", J(w, i))
      PROVE  TypeInv' /\ CardsMove
    <2>1. i \in Nat /\ stamp[i].card \in 1..Len(card) /\ stamp[i].card \in Nat
        <3>1. i \in DOMAIN stamp
            BY DEF LastStamps
        <3>2. DOMAIN stamp = 1..Len(stamp) /\ Len(stamp) \in Nat /\ Len(card) \in Nat
            BY LenProperties, CardRows DEF TypeInv, TypeOK
        <3> QED BY <3>1, <3>2 DEF TypeInv, RowsOK
    <2>2. J(w, i) \in Job
        BY <2>1 DEF NoJob, Job
    <2>3. J(w, i).card \in 1..Len(card)
        BY <2>1 DEF NoJob
    <2> HIDE DEF J
    <2>4. JobFits("getCard", J(w, i), Len(card))
        BY <2>3 DEF JobFits, CardPCs, ClientPCs
    <2> QED BY <1>1, <1>2, <1>3, <2>2, <2>4, SameCode, BeginStep
<1>4. CASE Begin(p, "idle", NoJob)
    BY <1>1, <1>2, <1>4, NoJobType, NoJobFits, SameCode, BeginStep
<1> QED BY <1>3, <1>4 DEF UndoLastStamp

LEMMA TypeGetCard ==
    ASSUME TypeInv, NEW p \in Procs, GetCard(p)
    PROVE  TypeInv' /\ CardsMove
<1> DEFINE row == card[job[p].card]
           J == [job[p] EXCEPT !.status = row.status, !.client = row.client]
<1>1. /\ job[p] \in Job /\ NoWrite /\ pc[p] = "getCard"
      /\ job[p].card \in 1..Len(card)
    BY JobOf DEF GetCard, JobFits, CardPCs
<1>2. row \in Card
    BY <1>1, CardRows DEF TypeInv
<1>3. CASE Finish(p)
    BY <1>1, <1>3, ReadFinish
<1>4. CASE row.status # "cancelled" /\ GotoWith(p, "deleteStamp", J)
    <2>1. /\ row.status \in {"open", "completed", "redeemed"}
          /\ row.client \in Clients
        BY <1>2, <1>4 DEF Card
    <2> DEFINE J1 == [job[p] EXCEPT !.status = row.status]
    <2> HIDE DEF row
    <2>2. J1 \in Job /\ J1.card = job[p].card /\ J = [J1 EXCEPT !.client = row.client]
        BY <1>1, <2>1 DEF Job
    <2> HIDE DEF J, J1
    <2>3. J \in Job /\ J.card = job[p].card /\ J.client = row.client
        BY <2>1, <2>2 DEF Job
    <2>4. JobFits("deleteStamp", J, Len(card))
        BY <1>1, <2>1, <2>3 DEF JobFits, CardPCs, ClientPCs
    <2>5. "deleteStamp" \in PCs
        BY DEF PCs
    <2> QED BY <1>1, <1>4, <2>3, <2>4, <2>5, ReadStep
<1> QED BY <1>3, <1>4 DEF GetCard, Undoable

LEMMA TypeDeleteStamp ==
    ASSUME TypeInv, NEW p \in Procs, DeleteStamp(p)
    PROVE  TypeInv' /\ CardsMove
<1>1. job[p] \in Job /\ JobFits("deleteStamp", job[p], Len(card))
    BY JobOf DEF DeleteStamp
<1>2. UNCHANGED card /\ CardsMove
    BY SameCardsMove DEF DeleteStamp, TypeInv
<1>3. pc' \in [Procs -> PCs] /\ job' \in [Procs -> Job] /\ JobsOK'
    <2>1. {"idle", "reopenCard"} \subseteq PCs
        BY DEF PCs
    <2>2. CASE Goto(p, "reopenCard")
        <3>1. GotoWith(p, "reopenCard", job[p])
            BY <2>2, GotoIsGotoWith DEF TypeInv
        <3>2. JobFits("reopenCard", job[p], Len(card'))
            BY <1>1, <1>2 DEF JobFits, CardPCs, ClientPCs
        <3> QED BY <1>1, <1>2, <2>1, <3>1, <3>2, JobsMove
    <2>3. CASE Finish(p)
        BY <1>2, <2>1, <2>3, NoJobType, NoJobFits, JobsMove DEF Finish
    <2> QED BY <2>2, <2>3 DEF DeleteStamp
<1>4. RowsOK'
    BY <1>2, RowsMove DEF DeleteStamp, history
<1>5. undone' \subseteq Nat
    <2>1. job[p].stamp \in Nat
        BY <1>1 DEF Job
    <2> QED BY <2>1 DEF DeleteStamp, TypeInv, TypeOK
<1>6. TypeOK'
    BY <1>2, <1>3, <1>5 DEF TypeInv, TypeOK, DeleteStamp, clocks, counts, history
<1> QED BY <1>2, <1>3, <1>4, <1>6 DEF TypeInv

LEMMA TypeReopenCard ==
    ASSUME TypeInv, NEW p \in Procs, ReopenCard(p)
    PROVE  TypeInv' /\ CardsMove
<1>1. job[p].client \in Clients
    BY JobOf DEF ReopenCard, JobFits, ClientPCs
<1>2. CardsMove
    BY <1>1, InsertMove, SameCardsMove DEF ReopenCard, TypeInv
<1> QED BY <1>2, FinishStep DEF ReopenCard

LEMMA TypeListCards ==
    ASSUME TypeInv, NEW p \in Procs, ListCards(p)
    PROVE  TypeInv' /\ CardsMove
<1> DEFINE J(k) == [job[p] EXCEPT !.card = k]
<1>1. /\ job[p] \in Job /\ NoWrite
      /\ JobFits("listCards", job[p], Len(card))
    BY JobOf DEF ListCards
<1>2. CASE Finish(p)
    BY <1>1, <1>2, ReadFinish
<1>3. ASSUME NEW k \in Mine(job[p].client), GotoWith(p, "setCode", J(k))
      PROVE  TypeInv' /\ CardsMove
    <2>1. k \in 1..Len(card) /\ k \in Nat
        BY CardRows DEF Mine, Listed, Completed, TypeInv
    <2>2. J(k) \in Job
        BY <1>1, <2>1 DEF Job
    <2>3. J(k).card = k /\ J(k).client = job[p].client
        BY <1>1 DEF Job
    <2> HIDE DEF J
    <2>4. JobFits("setCode", J(k), Len(card))
        BY <1>1, <2>1, <2>3 DEF JobFits, CardPCs, ClientPCs
    <2>5. "setCode" \in PCs
        BY DEF PCs
    <2> QED BY <1>1, <1>3, <2>2, <2>4, <2>5, ReadStep
<1> QED BY <1>2, <1>3 DEF ListCards

(* A code is stored for the card and the client that a handler holds. *)
LEMMA StoredCode ==
    ASSUME TypeInv, NEW j, j.card \in 1..Len(card), j.client \in Clients,
           NEW k \in Codes, SetRedemption(k, j)
    PROVE  /\ code' \in [Codes -> RedemptionCode \cup {NoCode}]
           /\ \A i \in Codes : code'[i] # NoCode => code'[i].card \in 1..Len(card)
<1> DEFINE r == [card |-> j.card, client |-> j.client]
<1>1. r \in RedemptionCode /\ r.card \in 1..Len(card)
    <2>1. Len(card) \in Nat
        BY CardRows DEF TypeInv
    <2>2. j.card \in Nat \ {0}
        BY <2>1
    <2> QED BY <2>2 DEF RedemptionCode
<1>2. code' = [code EXCEPT ![k] = r] /\ code \in [Codes -> RedemptionCode \cup {NoCode}]
    BY DEF SetRedemption, TypeInv, TypeOK
<1> HIDE DEF r
<1> QED BY <1>1, <1>2 DEF TypeInv, RowsOK

(* A code is taken, or has expired. *)
LEMMA DroppedCode ==
    ASSUME TypeInv, NEW k \in Codes, code' = [code EXCEPT ![k] = NoCode]
    PROVE  /\ code' \in [Codes -> RedemptionCode \cup {NoCode}]
           /\ \A i \in Codes : code'[i] # NoCode => code'[i].card \in 1..Len(card)
BY DEF TypeInv, TypeOK, RowsOK

(* A handler that is done, whatever it has written. *)
LEMMA FinishJobs ==
    ASSUME TypeInv, CardsMove, NEW p \in Procs, Finish(p)
    PROVE  pc' \in [Procs -> PCs] /\ job' \in [Procs -> Job] /\ JobsOK'
<1>1. "idle" \in PCs
    BY DEF PCs
<1> QED BY <1>1, NoJobType, NoJobFits, JobsMove DEF Finish

LEMMA TypeSetCode ==
    ASSUME TypeInv, NEW p \in Procs, SetCode(p)
    PROVE  TypeInv' /\ CardsMove
<1>1. job[p].card \in 1..Len(card) /\ job[p].client \in Clients
    BY JobOf DEF SetCode, JobFits, CardPCs, ClientPCs
<1>2. UNCHANGED <<tables, clocks, counts, delivered>> /\ Finish(p)
    BY DEF SetCode
<1>3. UNCHANGED card /\ CardsMove
    BY <1>2, SameCardsMove DEF tables, TypeInv
<1>4. PICK k \in Codes : SetRedemption(k, job[p]) /\ issued' = [issued EXCEPT ![k] = @ + 1]
    BY DEF SetCode
<1>5. /\ code' \in [Codes -> RedemptionCode \cup {NoCode}]
      /\ \A i \in Codes : code'[i] # NoCode => code'[i].card \in 1..Len(card)
    BY <1>1, <1>4, StoredCode
<1>6. issued' \in [Codes -> Nat]
    BY <1>4 DEF TypeInv, TypeOK
<1>7. pc' \in [Procs -> PCs] /\ job' \in [Procs -> Job] /\ JobsOK'
    BY <1>2, <1>3, FinishJobs
<1>8. RowsOK'
    BY <1>2, <1>5 DEF TypeInv, RowsOK, tables
<1>9. TypeOK'
    BY <1>2, <1>5, <1>6, <1>7 DEF TypeInv, TypeOK, tables, clocks, counts
<1> QED BY <1>3, <1>7, <1>8, <1>9 DEF TypeInv

LEMMA TypeConfirmRedemption ==
    ASSUME TypeInv, NEW p \in Procs, ConfirmRedemption(p)
    PROVE  TypeInv' /\ CardsMove
<1> DEFINE J(k, w) == [NoJob EXCEPT !.op = "confirm", !.by = w, !.code = k,
                                    !.card = code[k].card, !.client = code[k].client]
<1>1. PICK k \in Codes, w \in Collaborators :
          /\ code[k] # NoCode
          /\ ConsumeRedemption(k)
          /\ Begin(p, "markRedeemed", J(k, w))
          /\ UNCHANGED <<tables, clocks, configUpdates, failures, history>>
    BY DEF ConfirmRedemption
<1>2. /\ code[k].card \in 1..Len(card) /\ code[k].card \in Nat
      /\ code[k].client \in Clients
    BY <1>1 DEF TypeInv, TypeOK, RowsOK, RedemptionCode
<1>3. J(k, w) \in Job
    BY <1>2 DEF NoJob, Job
<1>4. /\ J(k, w).card = code[k].card /\ J(k, w).client = code[k].client
      /\ J(k, w).code = k
    BY DEF NoJob
<1>5. Begin(p, "markRedeemed", J(k, w))
    BY <1>1
<1> HIDE DEF J
<1>6. JobFits("markRedeemed", J(k, w), Len(card))
    BY <1>2, <1>4 DEF JobFits, CardPCs, ClientPCs
<1>7. "markRedeemed" \in PCs
    BY DEF PCs
<1>8. /\ code' \in [Codes -> RedemptionCode \cup {NoCode}]
      /\ \A i \in Codes : code'[i] # NoCode => code'[i].card \in 1..Len(card)
    BY <1>1, DroppedCode DEF ConsumeRedemption
<1>9. UNCHANGED <<tables, clocks, configUpdates, failures, history>>
    BY <1>1
<1> QED BY <1>3, <1>5, <1>6, <1>7, <1>8, <1>9, BeginStep

LEMMA TypeMarkRedeemed ==
    ASSUME TypeInv, NEW p \in Procs, MarkRedeemed(p)
    PROVE  TypeInv' /\ CardsMove
<1> DEFINE D == [code : Codes, card : Nat \ {0}]
           d == [code |-> job[p].code, card |-> job[p].card]
<1>1. job[p].card \in 1..Len(card) /\ job[p].code \in Codes
    BY JobOf DEF MarkRedeemed, JobFits, CardPCs
<1>2. CardsMove
    BY <1>1, SetStatusMove DEF MarkRedeemed, TypeInv
<1>3. 1..Len(card) \subseteq 1..Len(card') /\ Len(card) \in Nat
    BY <1>2, CardsMoveLen DEF TypeInv
<1>4. d \in D /\ delivered \in Seq(D) /\ delivered' = Append(delivered, d)
    <2>1. job[p].card \in Nat \ {0}
        BY <1>1, <1>3
    <2> QED BY <1>1, <2>1 DEF MarkRedeemed, TypeInv, TypeOK
<1>5. d.card \in 1..Len(card)
    BY <1>1
<1> HIDE DEF d, D
<1>6. /\ delivered' \in Seq(D)
      /\ \A i \in DOMAIN delivered' : delivered'[i].card \in 1..Len(card)
    <2>1. /\ delivered' \in Seq(D)
          /\ Len(delivered') = Len(delivered) + 1 /\ Len(delivered) \in Nat
          /\ DOMAIN delivered = 1..Len(delivered)
          /\ DOMAIN delivered' = 1..Len(delivered')
          /\ \A i \in 1..Len(delivered) : delivered'[i] = delivered[i]
          /\ delivered'[Len(delivered) + 1] = d
        BY <1>4, AppendProperties, LenProperties
    <2>2. ASSUME NEW i \in DOMAIN delivered'
          PROVE  delivered'[i].card \in 1..Len(card)
        <3>1. i \in 1..Len(delivered) \/ i = Len(delivered) + 1
            BY <2>1
        <3> QED BY <1>5, <2>1, <3>1 DEF TypeInv, RowsOK
    <2> QED BY <2>1, <2>2
<1>7. pc' \in [Procs -> PCs] /\ job' \in [Procs -> Job] /\ JobsOK'
    BY <1>2, FinishJobs DEF MarkRedeemed
<1>8. RowsOK'
    BY <1>3, <1>6 DEF TypeInv, RowsOK, MarkRedeemed
<1>9. TypeOK'
    BY <1>2, <1>6, <1>7
    DEF TypeInv, TypeOK, MarkRedeemed, clocks, counts, CardsMove, D
<1> QED BY <1>2, <1>7, <1>8, <1>9 DEF TypeInv

LEMMA TypeAbort ==
    ASSUME TypeInv, NEW p \in Procs, Abort(p)
    PROVE  TypeInv' /\ CardsMove
<1>1. /\ UNCHANGED <<tables, code, clocks, messages, configUpdates, history>>
      /\ Finish(p) /\ failures' = failures + 1
    BY DEF Abort, Fail
<1>2. CardsMove
    BY <1>1, SameCardsMove DEF tables, TypeInv
<1>3. pc' \in [Procs -> PCs] /\ job' \in [Procs -> Job] /\ JobsOK'
    BY <1>1, <1>2, FinishJobs
<1>4. RowsOK'
    BY <1>1, <1>2, RowsMove DEF tables, history
<1>5. TypeOK'
    BY <1>1, <1>3 DEF TypeInv, TypeOK, tables, clocks, history
<1> QED BY <1>2, <1>3, <1>4, <1>5 DEF TypeInv

LEMMA TypeRestoreCode ==
    ASSUME TypeInv, NEW p \in Procs, RestoreCode(p)
    PROVE  TypeInv' /\ CardsMove
<1>1. /\ job[p].card \in 1..Len(card) /\ job[p].code \in Codes
      /\ job[p].client \in Clients
    BY JobOf DEF RestoreCode, JobFits, CardPCs, ClientPCs
<1>2. /\ UNCHANGED <<config, stamp, undone, clocks, messages, configUpdates, history>>
      /\ Finish(p) /\ failures' = failures + 1
    BY DEF RestoreCode, Fail
<1>3. CardsMove
    BY <1>1, SetStatusMove, SameCardsMove DEF RestoreCode, TypeInv
<1>4. /\ code' \in [Codes -> RedemptionCode \cup {NoCode}]
      /\ \A i \in Codes : code'[i] # NoCode => code'[i].card \in 1..Len(card)
    BY <1>1, StoredCode DEF RestoreCode
<1>5. 1..Len(card) \subseteq 1..Len(card')
    BY <1>3, CardsMoveLen DEF TypeInv
<1>6. pc' \in [Procs -> PCs] /\ job' \in [Procs -> Job] /\ JobsOK'
    BY <1>2, <1>3, FinishJobs
<1>7. RowsOK'
    BY <1>2, <1>4, <1>5 DEF TypeInv, RowsOK, history
<1>8. TypeOK'
    BY <1>2, <1>3, <1>4, <1>6 DEF TypeInv, TypeOK, clocks, history, CardsMove
<1> QED BY <1>3, <1>6, <1>7, <1>8 DEF TypeInv

(* Steps of the admin, of the clocks, and none at all. *)
LEMMA TypeOthers ==
    ASSUME TypeInv, UpsertConfig \/ Clock \/ Quiescent \/ UNCHANGED vars
    PROVE  TypeInv' /\ CardsMove
<1>1. UNCHANGED <<card, stamp, pc, job, delivered>>
    BY DEF UpsertConfig, Clock, AgeCard, SettleStamp, ExpireCode, Quiescent,
           vars, tables, history
<1>2. CardsMove
    BY <1>1, SameCardsMove DEF TypeInv
<1>3. pc' \in [Procs -> PCs] /\ job' \in [Procs -> Job] /\ JobsOK'
    BY <1>1, JobsStay
<1>4. CASE UpsertConfig
    <2>1. TypeOK'
        BY <1>3, <1>4 DEF UpsertConfig, TypeInv, TypeOK, clocks, history
    <2>2. RowsOK'
        BY <1>4 DEF UpsertConfig, TypeInv, RowsOK, history
    <2> QED BY <1>2, <1>3, <2>1, <2>2 DEF TypeInv
<1>5. ASSUME NEW k \in DOMAIN card, AgeCard(k) PROVE TypeInv' /\ CardsMove
    <2>1. k \in Nat
        BY CardRows DEF TypeInv
    <2>2. TypeOK'
        BY <1>3, <1>5, <2>1 DEF AgeCard, TypeInv, TypeOK, tables, counts, history
    <2>3. RowsOK'
        BY <1>5 DEF AgeCard, TypeInv, RowsOK, tables, history
    <2> QED BY <1>2, <1>3, <2>2, <2>3 DEF TypeInv
<1>6. ASSUME NEW i \in DOMAIN stamp, SettleStamp(i) PROVE TypeInv' /\ CardsMove
    <2>1. i \in Nat
        BY LenProperties DEF TypeInv, TypeOK
    <2>2. TypeOK'
        BY <1>3, <1>6, <2>1 DEF SettleStamp, TypeInv, TypeOK, tables, counts, history
    <2>3. RowsOK'
        BY <1>6 DEF SettleStamp, TypeInv, RowsOK, tables, history
    <2> QED BY <1>2, <1>3, <2>2, <2>3 DEF TypeInv
<1>7. ASSUME NEW k \in Codes, ExpireCode(k) PROVE TypeInv' /\ CardsMove
    <2>1. /\ code' \in [Codes -> RedemptionCode \cup {NoCode}]
          /\ \A i \in Codes : code'[i] # NoCode => code'[i].card \in 1..Len(card)
        BY <1>7, DroppedCode DEF ExpireCode
    <2>2. TypeOK'
        BY <1>3, <1>7, <2>1 DEF ExpireCode, TypeInv, TypeOK, tables, clocks, counts, history
    <2>3. RowsOK'
        BY <1>7, <2>1 DEF ExpireCode, TypeInv, RowsOK, tables, history
    <2> QED BY <1>2, <1>3, <2>2, <2>3 DEF TypeInv
<1>8. CASE UNCHANGED vars
    <2>1. TypeOK' /\ RowsOK'
        BY <1>8 DEF TypeInv, TypeOK, RowsOK, vars, tables, clocks, counts, history
    <2> QED BY <1>2, <1>3, <2>1 DEF TypeInv
<1> QED BY <1>4, <1>5, <1>6, <1>7, <1>8 DEF Clock, Quiescent

LEMMA TypeInit == Init => TypeInv
<1> SUFFICES ASSUME Init PROVE TypeInv
    OBVIOUS
<1>1. "idle" \in PCs
    BY DEF PCs
<1>2. TypeOK
    BY <1>1, NoJobType DEF Init, TypeOK
<1>3. RowsOK
    BY DEF Init, RowsOK
<1>4. JobsOK
    BY NoJobFits DEF Init, JobsOK
<1> QED BY <1>2, <1>3, <1>4 DEF TypeInv

LEMMA TypeNext == TypeInv /\ [Next]_vars => TypeInv' /\ CardsMove
<1> SUFFICES ASSUME TypeInv, [Next]_vars PROVE TypeInv' /\ CardsMove
    OBVIOUS
<1>1. ASSUME NEW p \in Procs, Accept(p) PROVE TypeInv' /\ CardsMove
    BY <1>1, TypeArrive, TypeUndoLastStamp, TypeConfirmRedemption DEF Accept
<1>2. ASSUME NEW p \in Procs, Step(p) PROVE TypeInv' /\ CardsMove
    BY <1>2, TypeGetOpenCard, TypeCancelCard, TypeOpenCard, TypeInsertStamp,
       TypeReadCount, TypeCompleteCard, TypeGetCard, TypeDeleteStamp,
       TypeReopenCard, TypeListCards, TypeSetCode, TypeMarkRedeemed DEF Step
<1>3. ASSUME NEW p \in Procs, Abort(p) \/ RestoreCode(p) PROVE TypeInv' /\ CardsMove
    BY <1>3, TypeAbort, TypeRestoreCode
<1>4. CASE UpsertConfig \/ Clock \/ Quiescent \/ UNCHANGED vars
    BY <1>4, TypeOthers
<1> QED BY <1>1, <1>2, <1>3, <1>4 DEF Next

LEMMA TypeAlways == Spec => []TypeInv
<1>1. TypeInv /\ [Next]_vars => TypeInv'
    BY TypeNext
<1> QED BY <1>1, TypeInit, PTL DEF Spec

(***************************************************************************)
(* Handlers insert, rewrite and append what they hold in their jobs: every *)
(* row they write has the columns the tables declare and refers to a card  *)
(* that exists, however they interleave, fail and put codes back.          *)
(***************************************************************************)
THEOREM TypeCorrect == Spec => []TypeOK
<1>1. TypeInv => TypeOK
    BY DEF TypeInv
<1> QED BY <1>1, TypeAlways, PTL

(***************************************************************************)
(* CompleteCard, CancelCard and MarkRedeemed write a card that was read    *)
(* several statements before.  No interleaving makes them take it back to  *)
(* a status it has left, and no card changes hands.                        *)
(***************************************************************************)
THEOREM LifecycleCorrect == Spec => LifecycleIsOneWay
<1>1. TypeInv /\ [Next]_vars =>
          [\A k \in DOMAIN card :
              /\ card'[k].client = card[k].client
              /\ card'[k].status \in MayBecome[card[k].status]]_vars
    BY TypeNext DEF CardsMove
<1> QED BY <1>1, TypeAlways, PTL DEF Spec, LifecycleIsOneWay

-----------------------------------------------------------------------------
(* One open card: the only step that opens a card asks the unique index,   *)
(* and no other step makes a card open that was not.                       *)

SoleOpenCard == \A c \in Clients : \A i, j \in OpenCards(c) : i = j

LEMMA OldCardsStayClosed ==
    ASSUME TypeInv, CardsMove, NEW c, NEW k \in OpenCards(c)', k \in DOMAIN card
    PROVE  k \in OpenCards(c)
<1>1. card[k] \in Card
    BY CardRows DEF TypeInv
<1>2. /\ card'[k].client = card[k].client
      /\ card'[k].status \in MayBecome[card[k].status]
    BY DEF CardsMove
<1>3. card'[k].client = c /\ card'[k].status = "open"
    BY DEF OpenCards
<1>4. card[k].status = "open"
    <2>1. card[k].status \in {"open", "completed", "redeemed", "cancelled"}
        BY <1>1 DEF Card
    <2>2. "open" \in MayBecome[card[k].status]
        BY <1>2, <1>3
    <2> QED BY <2>1, <2>2 DEF MayBecome
<1>5. card[k].client = c
    BY <1>2, <1>3
<1> QED BY <1>4, <1>5 DEF OpenCards

LEMMA SoleOpenCardMoves ==
    ASSUME TypeInv, CardsMove, SoleOpenCard
    PROVE  SoleOpenCard'
<1>1. /\ DOMAIN card = 1..Len(card) /\ DOMAIN card' = 1..Len(card')
      /\ Len(card) \in Nat
    BY CardsMoveLen DEF TypeInv
<1>2. CASE Len(card') = Len(card)
    <2>1. ASSUME NEW c \in Clients, NEW i \in OpenCards(c)', NEW j \in OpenCards(c)'
          PROVE  i = j
        <3>1. i \in DOMAIN card /\ j \in DOMAIN card
            BY <1>1, <1>2 DEF OpenCards
        <3> QED BY <3>1, OldCardsStayClosed DEF SoleOpenCard
    <2> QED BY <2>1 DEF SoleOpenCard
<1>3. ASSUME NEW d \in Clients, InsertCard(d)
      PROVE  SoleOpenCard'
    <2>1. /\ Len(card') = Len(card) + 1
          /\ card'[Len(card) + 1].client = d
        <3> DEFINE row == [client |-> d, status |-> "open", at |-> 0]
        <3>1. row \in Card /\ card \in Seq(Card) /\ card' = Append(card, row)
            BY <1>3 DEF Card, TypeInv, TypeOK, InsertCard
        <3>2. row.client = d
            OBVIOUS
        <3> HIDE DEF row
        <3> QED BY <3>1, <3>2, AppendProperties
    <2>2. ASSUME NEW c \in Clients, NEW i \in OpenCards(c)', NEW j \in OpenCards(c)'
          PROVE  i = j
        <3>1. /\ i \in DOMAIN card \/ i = Len(card) + 1
              /\ j \in DOMAIN card \/ j = Len(card) + 1
            BY <1>1, <2>1 DEF OpenCards
        <3>2. CASE c = d
            <4>1. i \notin DOMAIN card /\ j \notin DOMAIN card
                BY <1>3, <3>2, OldCardsStayClosed DEF InsertCard
            <4> QED BY <3>1, <4>1
        <3>3. CASE c # d
            <4>1. card'[i].client = c /\ card'[j].client = c
                BY DEF OpenCards
            <4>2. i \in DOMAIN card /\ j \in DOMAIN card
                BY <2>1, <3>1, <3>3, <4>1
            <4> QED BY <4>2, OldCardsStayClosed DEF SoleOpenCard
        <3> QED BY <3>2, <3>3
    <2> QED BY <2>2 DEF SoleOpenCard
<1> QED BY <1>2, <1>3 DEF CardsMove

LEMMA SoleIsOne == SoleOpenCard => OneOpenCard
<1> SUFFICES ASSUME SoleOpenCard, NEW c \in Clients
             PROVE  Cardinality(OpenCards(c)) <= 1
    BY DEF OneOpenCard
<1>1. CASE OpenCards(c) = {}
    BY <1>1, FS_EmptySet
<1>2. CASE OpenCards(c) # {}
    <2>1. PICK k : OpenCards(c) = {k}
        BY <1>2 DEF SoleOpenCard
    <2>2. Cardinality(OpenCards(c)) = 1
        BY <2>1, FS_Singleton
    <2> QED BY <2>2
<1> QED BY <1>1, <1>2

(***************************************************************************)
(* Any number of stamps, undos and lazy expirations of one client may run  *)
(* at once, each opening a card because it found none: the client never    *)
(* has two.                                                                *)
(***************************************************************************)
THEOREM OneOpenCardCorrect == Spec => []OneOpenCard
<1>1. Init => SoleOpenCard
    BY DEF Init, SoleOpenCard, OpenCards
<1>2. TypeInv /\ SoleOpenCard /\ [Next]_vars => SoleOpenCard'
    BY TypeNext, SoleOpenCardMoves
<1> QED BY <1>1, <1>2, SoleIsOne, TypeAlways, PTL DEF Spec

-----------------------------------------------------------------------------
(* Codes: a step may store, take or drop a code, and make a handler one    *)
(* that holds a card to give a code or a reward for.                       *)

Holding == {"setCode", "markRedeemed"}

(* What a step that does none of this shows. *)
Quiet == /\ UNCHANGED <<code, issued, delivered>>
         /\ \A q \in Procs : pc'[q] \in Holding =>
                pc'[q] = pc[q] /\ job'[q] = job[q]

LEMMA OthersStay ==
    ASSUME TypeOK, NEW p \in Procs, NEW s, NEW j, GotoWith(p, s, j)
    PROVE  /\ pc'[p] = s /\ job'[p] = j
           /\ \A q \in Procs \ {p} : pc'[q] = pc[q] /\ job'[q] = job[q]
BY DEF TypeOK, GotoWith

LEMMA QuietMove ==
    ASSUME TypeInv, NEW p \in Procs, NEW s, NEW j, GotoWith(p, s, j),
           s \notin Holding, UNCHANGED <<code, issued, delivered>>
    PROVE  Quiet
BY OthersStay DEF Quiet, TypeInv

LEMMA QuietGoto ==
    ASSUME TypeInv, NEW p \in Procs, NEW s, Goto(p, s),
           s \notin Holding, UNCHANGED <<code, issued, delivered>>
    PROVE  Quiet
BY GotoIsGotoWith, QuietMove DEF TypeInv

LEMMA QuietFinish ==
    ASSUME TypeInv, NEW p \in Procs, Finish(p), UNCHANGED <<code, issued, delivered>>
    PROVE  Quiet
BY QuietMove DEF Finish, Holding

LEMMA QuietBegin ==
    ASSUME TypeInv, NEW p \in Procs, NEW s, NEW j, Begin(p, s, j),
           s \notin Holding, UNCHANGED <<code, issued, delivered>>
    PROVE  Quiet
BY QuietMove DEF Begin, GotoWith

LEMMA QuietAccept ==
    ASSUME TypeInv, NEW p \in Procs, Accept(p), ~ConfirmRedemption(p)
    PROVE  Quiet
<1>1. UNCHANGED <<code, issued, delivered>>
    BY DEF Accept, CheckCard, Redeem, AddStamp, UndoLastStamp, history
<1>2. \E s \in {"idle", "getOpenCard", "getCard"} : \E j : Begin(p, s, j)
    BY DEF Accept, CheckCard, Redeem, AddStamp, UndoLastStamp
<1> QED BY <1>1, <1>2, QuietBegin DEF Holding

LEMMA QuietStep ==
    ASSUME TypeInv, NEW p \in Procs, Step(p) \/ Abort(p),
           ~ListCards(p), ~SetCode(p), ~MarkRedeemed(p)
    PROVE  Quiet
<1>1. UNCHANGED <<code, issued, delivered>>
    BY DEF Step, GetOpenCard, CancelCard, OpenCard, InsertStamp, ReadCount,
           CompleteCard, GetCard, DeleteStamp, ReopenCard, Abort, NoWrite, history
<1> DEFINE Others == PCs \ Holding
<1>2. \/ Finish(p)
      \/ \E s \in Others : Goto(p, s)
      \/ \E s \in Others : \E j : GotoWith(p, s, j)
    BY DEF Step, GetOpenCard, WithoutCard, WithCard, CancelCard, OpenCard,
           InsertStamp, ReadCount, CompleteCard, GetCard, DeleteStamp,
           ReopenCard, Abort, PCs, Holding
<1> QED BY <1>1, <1>2, QuietFinish, QuietGoto, QuietMove

LEMMA QuietOthers ==
    ASSUME TypeInv, UpsertConfig \/ Clock \/ Quiescent \/ UNCHANGED vars,
           UNCHANGED code
    PROVE  Quiet
BY DEF UpsertConfig, Clock, AgeCard, SettleStamp, ExpireCode, Quiescent, vars,
       history, Quiet

(* What j refers to, a stored code or a handler's job, is a completed card *)
(* of the client j names.                                                  *)
SoundIn(rows, j) == /\ rows[j.card].status \in {"completed", "redeemed"}
                    /\ rows[j.card].client = j.client

CodeInv ==
    /\ \A k \in Codes : code[k] # NoCode => SoundIn(card, code[k])
    /\ \A p \in Procs : pc[p] \in Holding => SoundIn(card, job[p])
    /\ DeliveredCardsAreRedeemed

LEMMA SoundStays ==
    ASSUME TypeInv, CardsMove, NEW j, j.card \in 1..Len(card), SoundIn(card, j)
    PROVE  SoundIn(card', j)
<1>1. j.card \in DOMAIN card
    BY CardRows DEF TypeInv
<1>2. /\ card'[j.card].client = card[j.card].client
      /\ card'[j.card].status \in MayBecome[card[j.card].status]
    BY <1>1 DEF CardsMove
<1> QED BY <1>2 DEF SoundIn, MayBecome

LEMMA CodeMove ==
    ASSUME TypeInv, CodeInv, CardsMove,
           \A k \in Codes : code'[k] # NoCode =>
               code'[k] = code[k] \/ SoundIn(card', code'[k]),
           \A q \in Procs : pc'[q] \in Holding =>
               \/ pc'[q] = pc[q] /\ job'[q] = job[q]
               \/ SoundIn(card', job'[q]),
           \A i \in DOMAIN delivered' :
               \/ i \in DOMAIN delivered /\ delivered'[i] = delivered[i]
               \/ card'[delivered'[i].card].status = "redeemed"
    PROVE  CodeInv'
<1>1. ASSUME NEW k \in Codes, code'[k] # NoCode, code'[k] = code[k]
      PROVE  SoundIn(card', code'[k])
    BY <1>1, SoundStays DEF TypeInv, RowsOK, CodeInv
<1>2. ASSUME NEW q \in Procs, pc[q] \in Holding, job'[q] = job[q]
      PROVE  SoundIn(card', job'[q])
    <2>1. job[q].card \in 1..Len(card)
        BY <1>2, JobOf DEF JobFits, CardPCs, Holding
    <2> QED BY <1>2, <2>1, SoundStays DEF CodeInv
<1>3. ASSUME NEW i \in DOMAIN delivered, delivered'[i] = delivered[i]
      PROVE  card'[delivered'[i].card].status = "redeemed"
    <2>1. delivered[i].card \in DOMAIN card
        BY CardRows DEF TypeInv, RowsOK
    <2>2. card[delivered[i].card].status = "redeemed"
        BY DEF CodeInv, DeliveredCardsAreRedeemed
    <2> QED BY <1>3, <2>1, <2>2 DEF CardsMove, MayBecome
<1> QED BY <1>1, <1>2, <1>3 DEF CodeInv, DeliveredCardsAreRedeemed

LEMMA CodeQuiet ==
    ASSUME TypeInv, CodeInv, CardsMove, Quiet
    PROVE  CodeInv'
BY CodeMove DEF Quiet

LEMMA CodeListCards ==
    ASSUME TypeInv, CodeInv, CardsMove, NEW p \in Procs, ListCards(p)
    PROVE  CodeInv'
<1>1. UNCHANGED <<card, code, issued, delivered>>
    BY DEF ListCards, NoWrite, tables, history
<1>2. CASE Finish(p)
    BY <1>1, <1>2, QuietFinish, CodeQuiet
<1>3. ASSUME NEW k \in Mine(job[p].client),
             GotoWith(p, "setCode", [job[p] EXCEPT !.card = k])
      PROVE  CodeInv'
    <2> DEFINE J == [job[p] EXCEPT !.card = k]
    <2>1. J.card = k /\ J.client = job[p].client
        BY JobOf DEF Job
    <2>2. GotoWith(p, "setCode", J)
        BY <1>3
    <2> HIDE DEF J
    <2>3. SoundIn(card', J)
        BY <1>1, <2>1 DEF Mine, Listed, Completed, SoundIn
    <2>4. ASSUME NEW q \in Procs
          PROVE  \/ pc'[q] = pc[q] /\ job'[q] = job[q]
                 \/ SoundIn(card', job'[q])
        BY <2>2, <2>3, OthersStay DEF TypeInv
    <2> QED BY <1>1, <2>4, CodeMove
<1> QED BY <1>2, <1>3 DEF ListCards

(* A code is stored by a handler that holds a sound card. *)
LEMMA StoredSound ==
    ASSUME TypeInv, CodeInv, CardsMove, NEW p \in Procs, pc[p] \in Holding,
           NEW k \in Codes, SetRedemption(k, job[p])
    PROVE  \A i \in Codes : code'[i] # NoCode =>
               code'[i] = code[i] \/ SoundIn(card', code'[i])
<1>1. job[p].card \in 1..Len(card)
    BY JobOf DEF JobFits, CardPCs, Holding
<1>2. SoundIn(card', job[p])
    BY <1>1, SoundStays DEF CodeInv
<1> DEFINE r == [card |-> job[p].card, client |-> job[p].client]
<1>3. r.card = job[p].card /\ r.client = job[p].client
    OBVIOUS
<1>4. code' = [code EXCEPT ![k] = r] /\ DOMAIN code = Codes
    BY DEF SetRedemption, TypeInv, TypeOK
<1> HIDE DEF r
<1>5. SoundIn(card', r)
    BY <1>2, <1>3 DEF SoundIn
<1> QED BY <1>4, <1>5

LEMMA CodeSetCode ==
    ASSUME TypeInv, CodeInv, CardsMove, NEW p \in Procs,
           SetCode(p) \/ RestoreCode(p)
    PROVE  CodeInv'
<1>1. UNCHANGED delivered /\ Finish(p) /\ pc[p] \in Holding
    BY DEF SetCode, RestoreCode, Holding, history
<1>2. PICK k \in Codes : SetRedemption(k, job[p])
    BY JobOf DEF SetCode, RestoreCode, JobFits
<1>3. \A q \in Procs : pc'[q] \in Holding => pc'[q] = pc[q] /\ job'[q] = job[q]
    BY <1>1, OthersStay DEF Finish, Holding, TypeInv
<1> QED BY <1>1, <1>2, <1>3, StoredSound, CodeMove

LEMMA CodeConfirm ==
    ASSUME TypeInv, CodeInv, CardsMove, NEW p \in Procs, ConfirmRedemption(p)
    PROVE  CodeInv'
<1> DEFINE J(k, w) == [NoJob EXCEPT !.op = "confirm", !.by = w, !.code = k,
                                    !.card = code[k].card, !.client = code[k].client]
<1>1. PICK k \in Codes, w \in Collaborators :
          code[k] # NoCode /\ ConsumeRedemption(k) /\ Begin(p, "markRedeemed", J(k, w))
    BY DEF ConfirmRedemption
<1>2. UNCHANGED <<card, delivered>>
    BY DEF ConfirmRedemption, tables, history
<1>3. J(k, w).card = code[k].card /\ J(k, w).client = code[k].client
    BY DEF NoJob
<1>4. GotoWith(p, "markRedeemed", J(k, w))
    BY <1>1 DEF Begin, GotoWith
<1> HIDE DEF J
<1>5. SoundIn(card', J(k, w))
    BY <1>1, <1>2, <1>3 DEF CodeInv, SoundIn
<1>6. \A q \in Procs : \/ pc'[q] = pc[q] /\ job'[q] = job[q]
                       \/ SoundIn(card', job'[q])
    BY <1>4, <1>5, OthersStay DEF TypeInv
<1>7. \A i \in Codes : code'[i] # NoCode => code'[i] = code[i]
    BY <1>1 DEF ConsumeRedemption, TypeInv, TypeOK
<1> QED BY <1>2, <1>6, <1>7, CodeMove

LEMMA CodeMarkRedeemed ==
    ASSUME TypeInv, CodeInv, CardsMove, NEW p \in Procs, MarkRedeemed(p)
    PROVE  CodeInv'
<1> DEFINE d == [code |-> job[p].code, card |-> job[p].card]
<1>1. job[p].card \in DOMAIN card
    BY JobOf, CardRows DEF MarkRedeemed, JobFits, CardPCs, TypeInv
<1>2. card'[job[p].card].status = "redeemed"
    <2>1. card[job[p].card] \in Card
        BY <1>1, CardRows DEF TypeInv
    <2>2. card[job[p].card].status \in {"completed", "redeemed"}
        BY DEF MarkRedeemed, CodeInv, Holding, SoundIn
    <2> QED BY <1>1, <2>1, <2>2 DEF MarkRedeemed, SetStatus, Card
<1>3. /\ Finish(p) /\ UNCHANGED code /\ delivered' = Append(delivered, d)
      /\ d.card = job[p].card
    BY DEF MarkRedeemed
<1> HIDE DEF d
<1>4. \A q \in Procs : pc'[q] \in Holding => pc'[q] = pc[q] /\ job'[q] = job[q]
    BY <1>3, OthersStay DEF Finish, Holding, TypeInv
<1>5. ASSUME NEW i \in DOMAIN delivered'
      PROVE  \/ i \in DOMAIN delivered /\ delivered'[i] = delivered[i]
             \/ card'[delivered'[i].card].status = "redeemed"
    <2>1. delivered \in Seq([code : Codes, card : Nat \ {0}])
        BY DEF TypeInv, TypeOK
    <2>2. /\ Len(delivered) \in Nat /\ DOMAIN delivered = 1..Len(delivered)
          /\ DOMAIN delivered' = 1..(Len(delivered) + 1)
          /\ \A n \in 1..Len(delivered) : delivered'[n] = delivered[n]
          /\ delivered'[Len(delivered) + 1] = d
        BY <1>3, <2>1, LenProperties
    <2>3. i \in 1..Len(delivered) \/ i = Len(delivered) + 1
        BY <2>2
    <2> QED BY <1>2, <1>3, <2>2, <2>3
<1> QED BY <1>3, <1>4, <1>5, CodeMove

LEMMA CodeNext == TypeInv /\ CodeInv /\ [Next]_vars => CodeInv'
<1> SUFFICES ASSUME TypeInv, CodeInv, [Next]_vars PROVE CodeInv'
    OBVIOUS
<1>1. CardsMove
    BY TypeNext
<1>2. ASSUME NEW p \in Procs, Accept(p) PROVE CodeInv'
    BY <1>1, <1>2, QuietAccept, CodeQuiet, CodeConfirm
<1>3. ASSUME NEW p \in Procs, Step(p) \/ Abort(p) \/ RestoreCode(p) PROVE CodeInv'
    BY <1>1, <1>3, QuietStep, CodeQuiet, CodeListCards, CodeSetCode, CodeMarkRedeemed
<1>4. CASE UpsertConfig \/ Clock \/ Quiescent \/ UNCHANGED vars
    <2>1. CASE UNCHANGED code
        BY <1>1, <1>4, <2>1, QuietOthers, CodeQuiet
    <2>2. ASSUME NEW k \in Codes, ExpireCode(k) PROVE CodeInv'
        <3>1. UNCHANGED <<pc, job, delivered>>
            BY <2>2 DEF ExpireCode, history
        <3>2. \A i \in Codes : code'[i] # NoCode => code'[i] = code[i]
            BY <2>2 DEF ExpireCode, TypeInv, TypeOK
        <3> QED BY <1>1, <3>1, <3>2, CodeMove
    <2> QED BY <1>4, <2>1, <2>2
        DEF UpsertConfig, Clock, AgeCard, SettleStamp, Quiescent, vars
<1> QED BY <1>2, <1>3, <1>4 DEF Next

LEMMA CodeAlways == Spec => []CodeInv
<1>1. Init => CodeInv
    BY DEF Init, CodeInv, Holding, DeliveredCardsAreRedeemed
<1> QED BY <1>1, CodeNext, TypeAlways, PTL DEF Spec

(***************************************************************************)
(* Between listing the completed cards, storing a code, consuming it and   *)
(* putting it back, the card may be redeemed by another code and the last  *)
(* of its stamps undone: the code still is for a completed or redeemed     *)
(* card of its client.                                                     *)
(***************************************************************************)
THEOREM CodesCorrect == Spec => []CodesAreForCompletedCards
<1>1. CodeInv => CodesAreForCompletedCards
    BY DEF CodeInv, CodesAreForCompletedCards, SoundIn, Holding
<1> QED BY <1>1, CodeAlways, PTL

(***************************************************************************)
(* MarkRedeemed does not ask how many rows it touched; nevertheless every  *)
(* reward that was handed out is for a card that is redeemed.              *)
(***************************************************************************)
THEOREM DeliveredCorrect == Spec => []DeliveredCardsAreRedeemed
<1>1. CodeInv => DeliveredCardsAreRedeemed
    BY DEF CodeInv
<1> QED BY <1>1, CodeAlways, PTL

-----------------------------------------------------------------------------
(* Each issue of a code is worth one reward: it waits in the code, is held *)
(* by the handler that consumed it, or has been handed out.                *)

Takers(k) == {p \in Procs : pc[p] = "markRedeemed" /\ job[p].code = k}

Waiting(k) == IF code[k] = NoCode THEN 0 ELSE 1

CountOf(k) ==
    /\ IsFiniteSet(Takers(k))
    /\ Waiting(k) + Cardinality(Takers(k)) + Cardinality(DeliveriesFor(k)) <= issued[k]

CountInv == \A k \in Codes : CountOf(k)

LEMMA FiniteDeliveries ==
    ASSUME TypeInv, NEW k
    PROVE  IsFiniteSet(DeliveriesFor(k)) /\ Cardinality(DeliveriesFor(k)) \in Nat
<1>1. DOMAIN delivered = 1..Len(delivered) /\ Len(delivered) \in Nat
    BY LenProperties DEF TypeInv, TypeOK
<1>2. IsFiniteSet(DOMAIN delivered)
    BY <1>1, FS_Interval
<1>3. DeliveriesFor(k) \subseteq DOMAIN delivered
    BY DEF DeliveriesFor
<1> QED BY <1>2, <1>3, FS_Subset, FS_CardinalityType

(* The numbers CountOf adds up. *)
LEMMA CountTypes ==
    ASSUME TypeInv, NEW k \in Codes, CountOf(k)
    PROVE  /\ Waiting(k) \in {0, 1}
           /\ Cardinality(Takers(k)) \in Nat
           /\ Cardinality(DeliveriesFor(k)) \in Nat
           /\ issued[k] \in Nat
<1>1. Waiting(k) \in {0, 1}
    BY DEF Waiting
<1>2. Cardinality(Takers(k)) \in Nat
    BY FS_CardinalityType DEF CountOf
<1>3. issued[k] \in Nat
    BY DEF TypeInv, TypeOK
<1> QED BY <1>1, <1>2, <1>3, FiniteDeliveries

(* Nothing is handed out, and what may wait now was issued. *)
LEMMA CountKept ==
    ASSUME TypeInv, NEW k \in Codes, CountOf(k), Takers(k)' \subseteq Takers(k),
           UNCHANGED delivered,
           \/ code'[k] \in {code[k], NoCode} /\ issued'[k] = issued[k]
           \/ issued'[k] = issued[k] + 1
    PROVE  CountOf(k)'
<1> DEFINE t == Cardinality(Takers(k))
           u == Cardinality(Takers(k)')
           n == Cardinality(DeliveriesFor(k))
           w == Waiting(k)
           x == Waiting(k)'
<1>1. IsFiniteSet(Takers(k)') /\ u <= t /\ u \in Nat
    BY FS_Subset, FS_CardinalityType DEF CountOf
<1>2. Cardinality(DeliveriesFor(k)') = n
    BY DEF DeliveriesFor
<1>3. w + t + n <= issued[k]
    BY DEF CountOf
<1>4. w \in {0, 1} /\ t \in Nat /\ n \in Nat /\ issued[k] \in Nat
    BY CountTypes
<1>5. x \in {0, 1}
    BY DEF Waiting
<1>6. code'[k] \in {code[k], NoCode} => x <= w
    BY <1>4 DEF Waiting
<1> HIDE DEF t, u, n, w, x
<1>7. x + u + n <= issued'[k]
    BY <1>1, <1>3, <1>4, <1>5, <1>6
<1> QED BY <1>1, <1>2, <1>7 DEF CountOf, u, x

LEMMA CountQuiet ==
    ASSUME TypeInv, CountInv, Quiet
    PROVE  CountInv'
<1>1. ASSUME NEW k \in Codes PROVE CountOf(k)'
    <2>1. Takers(k)' \subseteq Takers(k)
        BY DEF Takers, Quiet, Holding
    <2> QED BY <2>1, CountKept DEF CountInv, Quiet
<1> QED BY <1>1 DEF CountInv

LEMMA FewerTakers ==
    ASSUME TypeInv, NEW p \in Procs, NEW s, NEW j, GotoWith(p, s, j),
           s # "markRedeemed", NEW k
    PROVE  Takers(k)' = Takers(k) \ {p}
BY OthersStay DEF Takers, TypeInv

LEMMA CountListCards ==
    ASSUME TypeInv, CountInv, NEW p \in Procs, ListCards(p)
    PROVE  CountInv'
<1>1. UNCHANGED <<code, issued, delivered>>
    BY DEF ListCards, NoWrite, history
<1>2. \E s \in {"idle", "setCode"} : \E j : GotoWith(p, s, j)
    BY DEF ListCards, Finish
<1>3. ASSUME NEW k \in Codes PROVE CountOf(k)'
    <2>1. Takers(k)' \subseteq Takers(k)
        BY <1>2, FewerTakers
    <2> QED BY <1>1, <2>1, CountKept DEF CountInv
<1> QED BY <1>3 DEF CountInv

LEMMA CountSetCode ==
    ASSUME TypeInv, CountInv, NEW p \in Procs, SetCode(p)
    PROVE  CountInv'
<1>1. UNCHANGED delivered /\ Finish(p)
    BY DEF SetCode
<1>2. PICK k \in Codes : SetRedemption(k, job[p]) /\ issued' = [issued EXCEPT ![k] = @ + 1]
    BY DEF SetCode
<1>3. ASSUME NEW i \in Codes PROVE CountOf(i)'
    <2>1. Takers(i)' \subseteq Takers(i)
        BY <1>1, FewerTakers DEF Finish
    <2>2. CASE i = k
        <3>1. issued'[i] = issued[i] + 1
            BY <1>2, <2>2 DEF TypeInv, TypeOK
        <3> QED BY <1>1, <2>1, <3>1, CountKept DEF CountInv
    <2>3. CASE i # k
        <3>1. issued'[i] = issued[i] /\ code'[i] = code[i]
            BY <1>2, <2>3 DEF SetRedemption, TypeInv, TypeOK
        <3> QED BY <1>1, <2>1, <3>1, CountKept DEF CountInv
    <2> QED BY <2>2, <2>3
<1> QED BY <1>3 DEF CountInv

LEMMA CountExpireCode ==
    ASSUME TypeInv, CountInv, NEW k \in Codes, ExpireCode(k)
    PROVE  CountInv'
<1>1. UNCHANGED <<pc, job, issued, delivered>>
    BY DEF ExpireCode, history
<1>2. ASSUME NEW i \in Codes PROVE CountOf(i)'
    <2>1. Takers(i)' \subseteq Takers(i)
        BY <1>1 DEF Takers
    <2>2. code'[i] \in {code[i], NoCode}
        BY DEF ExpireCode, TypeInv, TypeOK
    <2> QED BY <1>1, <2>1, <2>2, CountKept DEF CountInv
<1> QED BY <1>2 DEF CountInv

(* A handler takes the code: it no longer waits. *)
LEMMA CountConfirm ==
    ASSUME TypeInv, CountInv, NEW p \in Procs, ConfirmRedemption(p)
    PROVE  CountInv'
<1> DEFINE J(k, w) == [NoJob EXCEPT !.op = "confirm", !.by = w, !.code = k,
                                    !.card = code[k].card, !.client = code[k].client]
<1>1. PICK k \in Codes, w \in Collaborators :
          code[k] # NoCode /\ ConsumeRedemption(k) /\ Begin(p, "markRedeemed", J(k, w))
    BY DEF ConfirmRedemption
<1>2. UNCHANGED <<issued, delivered>>
    BY DEF ConfirmRedemption, history
<1>3. J(k, w).code = k
    BY DEF NoJob
<1>4. GotoWith(p, "markRedeemed", J(k, w)) /\ pc[p] = "idle"
    BY <1>1 DEF Begin, GotoWith
<1> HIDE DEF J
<1>5. /\ pc'[p] = "markRedeemed" /\ job'[p] = J(k, w)
      /\ \A q \in Procs \ {p} : pc'[q] = pc[q] /\ job'[q] = job[q]
    BY <1>4, OthersStay DEF TypeInv
<1>6. CountOf(k)'
    <2>1. CountOf(k)
        BY DEF CountInv
    <2>2. Takers(k)' = Takers(k) \cup {p} /\ p \notin Takers(k)
        BY <1>3, <1>4, <1>5 DEF Takers
    <2>3. /\ IsFiniteSet(Takers(k)')
          /\ Cardinality(Takers(k)') = Cardinality(Takers(k)) + 1
        BY <2>1, <2>2, FS_AddElement DEF CountOf
    <2>4. Waiting(k) = 1 /\ Waiting(k)' = 0
        BY <1>1 DEF Waiting, ConsumeRedemption, TypeInv, TypeOK
    <2>5. Cardinality(DeliveriesFor(k)') = Cardinality(DeliveriesFor(k))
        BY <1>2 DEF DeliveriesFor
    <2> DEFINE t == Cardinality(Takers(k))
               n == Cardinality(DeliveriesFor(k))
    <2>6. 1 + t + n <= issued[k] /\ t \in Nat /\ n \in Nat /\ issued[k] \in Nat
        BY <2>1, <2>4, CountTypes DEF CountOf
    <2> HIDE DEF t, n
    <2>7. 0 + (t + 1) + n <= issued[k]
        BY <2>6
    <2> QED BY <1>2, <2>3, <2>4, <2>5, <2>7 DEF CountOf, t, n
<1>7. ASSUME NEW i \in Codes \ {k} PROVE CountOf(i)'
    <2>1. Takers(i)' \subseteq Takers(i)
        BY <1>3, <1>5 DEF Takers
    <2>2. code'[i] = code[i]
        BY <1>1 DEF ConsumeRedemption, TypeInv, TypeOK
    <2> QED BY <1>2, <2>1, <2>2, CountKept DEF CountInv
<1> QED BY <1>6, <1>7 DEF CountInv

(* A handler that had taken the code puts it back: it waits again. *)
LEMMA CountRestore ==
    ASSUME TypeInv, CountInv, NEW p \in Procs, RestoreCode(p)
    PROVE  CountInv'
<1>1. UNCHANGED <<issued, delivered>> /\ Finish(p) /\ pc[p] = "markRedeemed"
    BY DEF RestoreCode, history
<1>2. PICK k \in Codes : k = job[p].code
    BY JobOf DEF RestoreCode, JobFits
<1>3. \A i \in Codes \ {k} : code'[i] = code[i]
    BY <1>2 DEF RestoreCode, SetRedemption, TypeInv, TypeOK
<1>4. \A i \in Codes : Takers(i)' = Takers(i) \ {p}
    BY <1>1, FewerTakers DEF Finish
<1>5. p \in Takers(k)
    BY <1>1, <1>2 DEF Takers
<1>6. CountOf(k)'
    <2>1. CountOf(k)
        BY <1>2 DEF CountInv
    <2>2. /\ IsFiniteSet(Takers(k)')
          /\ Cardinality(Takers(k)') = Cardinality(Takers(k)) - 1
        BY <1>2, <1>4, <1>5, <2>1, FS_RemoveElement DEF CountOf
    <2>3. Cardinality(DeliveriesFor(k)') = Cardinality(DeliveriesFor(k))
        BY <1>1 DEF DeliveriesFor
    <2> DEFINE t == Cardinality(Takers(k))
               n == Cardinality(DeliveriesFor(k))
               w == Waiting(k)
               x == Waiting(k)'
    <2>4. w + t + n <= issued[k]
        BY <2>1 DEF CountOf
    <2>5. t \in Nat /\ n \in Nat /\ issued[k] \in Nat /\ w \in {0, 1} /\ x \in {0, 1}
        BY <1>2, <2>1, CountTypes DEF Waiting
    <2> HIDE DEF t, n, w, x
    <2>6. x + (t - 1) + n <= issued[k]
        BY <2>4, <2>5
    <2> QED BY <1>1, <2>2, <2>3, <2>6 DEF CountOf, t, n, x
<1>7. ASSUME NEW i \in Codes \ {k} PROVE CountOf(i)'
    <2>1. Takers(i)' \subseteq Takers(i)
        BY <1>4
    <2> QED BY <1>1, <1>3, <2>1, CountKept DEF CountInv
<1> QED BY <1>6, <1>7 DEF CountInv

(* A handler that had taken the code hands out the reward. *)
LEMMA CountMarkRedeemed ==
    ASSUME TypeInv, CountInv, NEW p \in Procs, MarkRedeemed(p)
    PROVE  CountInv'
<1>1. UNCHANGED <<issued, code>> /\ Finish(p) /\ pc[p] = "markRedeemed"
    BY DEF MarkRedeemed
<1>2. PICK k \in Codes : k = job[p].code
    BY JobOf DEF MarkRedeemed, JobFits
<1>3. \A i \in Codes : Takers(i)' = Takers(i) \ {p}
    BY <1>1, FewerTakers DEF Finish
<1>4. p \in Takers(k)
    BY <1>1, <1>2 DEF Takers
<1> DEFINE d == [code |-> job[p].code, card |-> job[p].card]
<1>5. delivered' = Append(delivered, d) /\ d.code = k
    BY <1>2 DEF MarkRedeemed
<1> HIDE DEF d
<1>6. /\ Len(delivered) \in Nat /\ DOMAIN delivered = 1..Len(delivered)
      /\ DOMAIN delivered' = 1..(Len(delivered) + 1)
      /\ \A n \in 1..Len(delivered) : delivered'[n] = delivered[n]
      /\ delivered'[Len(delivered) + 1] = d
    <2>1. delivered \in Seq([code : Codes, card : Nat \ {0}])
        BY DEF TypeInv, TypeOK
    <2> QED BY <1>5, <2>1, LenProperties
<1>7. CountOf(k)'
    <2>1. CountOf(k)
        BY DEF CountInv
    <2>2. /\ IsFiniteSet(Takers(k)')
          /\ Cardinality(Takers(k)') = Cardinality(Takers(k)) - 1
        BY <1>3, <1>4, <2>1, FS_RemoveElement DEF CountOf
    <2>3. Cardinality(DeliveriesFor(k)') = Cardinality(DeliveriesFor(k)) + 1
        <3>1. DeliveriesFor(k)' = DeliveriesFor(k) \cup {Len(delivered) + 1}
            <4>1. ASSUME NEW i
                  PROVE  i \in DOMAIN delivered' <=>
                             i \in DOMAIN delivered \/ i = Len(delivered) + 1
                BY <1>6
            <4> QED BY <1>5, <1>6, <4>1 DEF DeliveriesFor
        <3>2. Len(delivered) + 1 \notin DeliveriesFor(k)
            BY <1>6 DEF DeliveriesFor
        <3> QED BY <3>1, <3>2, FiniteDeliveries, FS_AddElement
    <2>4. Waiting(k)' = Waiting(k)
        BY <1>1 DEF Waiting
    <2> DEFINE t == Cardinality(Takers(k))
               n == Cardinality(DeliveriesFor(k))
               w == Waiting(k)
    <2>5. w + t + n <= issued[k]
        BY <2>1 DEF CountOf
    <2>6. t \in Nat /\ n \in Nat /\ issued[k] \in Nat /\ w \in {0, 1}
        BY <2>1, CountTypes
    <2> HIDE DEF t, n, w
    <2>7. w + (t - 1) + (n + 1) <= issued[k]
        BY <2>5, <2>6
    <2> QED BY <1>1, <2>2, <2>3, <2>4, <2>7 DEF CountOf, t, n, w
<1>8. ASSUME NEW i \in Codes \ {k} PROVE CountOf(i)'
    <2>1. CountOf(i)
        BY DEF CountInv
    <2>2. Takers(i)' = Takers(i)
        <3>1. p \notin Takers(i)
            BY <1>2 DEF Takers
        <3> QED BY <1>3, <3>1
    <2>3. DeliveriesFor(i)' = DeliveriesFor(i)
        <3>1. ASSUME NEW m
              PROVE  m \in DOMAIN delivered' <=>
                         m \in DOMAIN delivered \/ m = Len(delivered) + 1
            BY <1>6
        <3> QED BY <1>5, <1>6, <3>1 DEF DeliveriesFor
    <2>4. Waiting(i)' = Waiting(i)
        BY <1>1 DEF Waiting
    <2> QED BY <1>1, <2>1, <2>2, <2>3, <2>4 DEF CountOf
<1> QED BY <1>7, <1>8 DEF CountInv

LEMMA CountNext == TypeInv /\ CountInv /\ [Next]_vars => CountInv'
<1> SUFFICES ASSUME TypeInv, CountInv, [Next]_vars PROVE CountInv'
    OBVIOUS
<1>1. ASSUME NEW p \in Procs, Accept(p) PROVE CountInv'
    BY <1>1, QuietAccept, CountQuiet, CountConfirm
<1>2. ASSUME NEW p \in Procs, Step(p) \/ Abort(p) \/ RestoreCode(p) PROVE CountInv'
    BY <1>2, QuietStep, CountQuiet, CountListCards, CountSetCode,
       CountMarkRedeemed, CountRestore
<1>3. CASE UpsertConfig \/ Clock \/ Quiescent \/ UNCHANGED vars
    <2>1. CASE UNCHANGED code
        BY <1>3, <2>1, QuietOthers, CountQuiet
    <2> QED BY <1>3, <2>1, CountExpireCode
        DEF UpsertConfig, Clock, AgeCard, SettleStamp, Quiescent, vars
<1> QED BY <1>1, <1>2, <1>3 DEF Next

(***************************************************************************)
(* GETDEL lets one of the employees who send a code at once have it, and a *)
(* code that is put back after a failure has handed out nothing: for any   *)
(* number of employees, codes and failures, a code hands out one reward at *)
(* most each time it is issued.                                            *)
(***************************************************************************)
THEOREM CodeDeliversOnceCorrect == Spec => []CodeDeliversOnce
<1>1. Init => CountInv
    <2> SUFFICES ASSUME Init, NEW k \in Codes PROVE CountOf(k)
        BY DEF CountInv
    <2>1. Takers(k) = {} /\ DeliveriesFor(k) = {}
        BY DEF Init, Takers, DeliveriesFor
    <2>2. Waiting(k) = 0 /\ issued[k] = 0
        BY DEF Init, Waiting
    <2> QED BY <2>1, <2>2, FS_EmptySet DEF CountOf
<1>2. TypeInv /\ CountInv => CodeDeliversOnce
    <2> SUFFICES ASSUME TypeInv, CountInv, NEW k \in Codes
                 PROVE  Cardinality(DeliveriesFor(k)) <= issued[k]
        BY DEF CodeDeliversOnce
    <2> DEFINE t == Cardinality(Takers(k))
               n == Cardinality(DeliveriesFor(k))
               w == Waiting(k)
    <2>1. w + t + n <= issued[k]
        BY DEF CountInv, CountOf
    <2>2. t \in Nat /\ n \in Nat /\ issued[k] \in Nat /\ w \in {0, 1}
        BY CountTypes DEF CountInv
    <2> HIDE DEF t, n, w
    <2>3. n <= issued[k]
        BY <2>1, <2>2
    <2> QED BY <2>3 DEF n
<1> QED BY <1>1, <1>2, CountNext, TypeAlways, PTL DEF Spec

-----------------------------------------------------------------------------
(* Completing a card: as long as no handler fails and the slots are not    *)
(* changed, a card that is open with all its stamps has a handler that     *)
(* stamped it and has yet to count, or has counted and is about to         *)
(* complete it.                                                            *)

StampPCs == {"getOpenCard", "cancelCard", "openCard", "insertStamp", "countStamps"}

CountingPCs == {"countStamps", "completeCard"}

(* A handler that stamps goes by the slots there are. *)
SlotsFit(s, j) ==
    /\ s \in {"openCard", "insertStamp"} => j.op = "stamp"
    /\ s \in StampPCs /\ j.op = "stamp" => j.slots = config.slots

(* The handlers that have stamped card k and are not done with it. *)
Counting(k) ==
    {p \in Procs : pc[p] \in CountingPCs /\ job[p].op = "stamp" /\ job[p].card = k}

SlotsAreKept == \A p \in Procs : SlotsFit(pc[p], job[p])

FullAreCounted ==
    \A k \in DOMAIN card :
        card[k].status = "open" /\ Counting(k) = {} => CountStamps(k) < config.slots

FullInv == failures = 0 /\ configUpdates = 0 => SlotsAreKept /\ FullAreCounted

LEMMA StampRows ==
    ASSUME TypeOK
    PROVE  /\ Len(stamp) \in Nat /\ DOMAIN stamp = 1..Len(stamp)
           /\ \A k : IsFiniteSet(StampsOn(k)) /\ CountStamps(k) \in Nat
<1>1. Len(stamp) \in Nat /\ DOMAIN stamp = 1..Len(stamp)
    BY LenProperties DEF TypeOK
<1>2. ASSUME NEW k PROVE IsFiniteSet(StampsOn(k)) /\ CountStamps(k) \in Nat
    <2>1. IsFiniteSet(1..Len(stamp))
        BY <1>1, FS_Interval
    <2>2. StampsOn(k) \subseteq 1..Len(stamp)
        BY <1>1 DEF StampsOn
    <2>3. IsFiniteSet(StampsOn(k))
        BY <2>1, <2>2, FS_Subset
    <2> QED BY <2>3, FS_CardinalityType DEF CountStamps
<1> QED BY <1>1, <1>2

LEMMA SlotsType == ASSUME TypeOK PROVE config.slots \in Nat \ {0}
BY ConfigAssumption DEF TypeOK, Config

(* Stamps are undone, or none is added to the card: it has no more. *)
LEMMA NoMoreStamps ==
    ASSUME TypeInv, TypeInv', NEW k, StampsOn(k)' \subseteq StampsOn(k),
           CountStamps(k) < config.slots, UNCHANGED config
    PROVE  CountStamps(k)' < config'.slots
<1>1. IsFiniteSet(StampsOn(k)) /\ CountStamps(k) \in Nat
    BY StampRows DEF TypeInv
<1>2. CountStamps(k)' <= CountStamps(k) /\ CountStamps(k)' \in Nat
    BY <1>1, FS_Subset, FS_CardinalityType DEF CountStamps
<1> QED BY <1>1, <1>2, SlotsType DEF TypeInv

(* A card that is open was open, or is new and has no stamp. *)
LEMMA OpenWasOpen ==
    ASSUME TypeInv, CardsMove, NEW k \in DOMAIN card', card'[k].status = "open",
           k \in DOMAIN card
    PROVE  card[k].status = "open"
<1>1. card[k] \in Card
    BY CardRows DEF TypeInv
<1>2. card'[k].status \in MayBecome[card[k].status]
    BY DEF CardsMove
<1>3. card[k].status \in {"open", "completed", "redeemed", "cancelled"}
    BY <1>1 DEF Card
<1> QED BY <1>2, <1>3 DEF MayBecome

LEMMA NewCardIsEmpty ==
    ASSUME TypeInv, TypeInv', NEW k \in DOMAIN card', k \notin DOMAIN card,
           UNCHANGED <<stamp, config>>
    PROVE  CountStamps(k)' < config'.slots
<1>1. DOMAIN card = 1..Len(card)
    BY CardRows DEF TypeInv
<1>2. StampsOn(k)' = {}
    BY <1>1 DEF StampsOn, TypeInv, RowsOK
<1>3. CountStamps(k)' = 0
    BY <1>2, FS_EmptySet DEF CountStamps
<1> QED BY <1>3, SlotsType DEF TypeInv

(* Nobody stamps, and whoever is counting goes on, or may leave the card.  *)
LEMMA CountedMove ==
    ASSUME TypeInv, TypeInv', CardsMove, FullAreCounted,
           UNCHANGED <<config, stamp>>, undone \subseteq undone',
           \A p \in Procs : \A k \in DOMAIN card :
               p \in Counting(k) => \/ p \in Counting(k)'
                                    \/ card'[k].status # "open"
                                    \/ CountStamps(k) < config.slots
    PROVE  FullAreCounted'
<1> SUFFICES ASSUME NEW k \in DOMAIN card', card'[k].status = "open", Counting(k)' = {}
             PROVE  CountStamps(k)' < config'.slots
    BY DEF FullAreCounted
<1>1. CASE k \notin DOMAIN card
    BY <1>1, NewCardIsEmpty
<1>2. CASE k \in DOMAIN card
    <2>1. card[k].status = "open"
        BY <1>2, OpenWasOpen
    <2>2. CountStamps(k) < config.slots
        <3>1. CASE Counting(k) = {}
            BY <1>2, <2>1, <3>1 DEF FullAreCounted
        <3>2. ASSUME NEW p \in Counting(k) PROVE CountStamps(k) < config.slots
            <4>1. p \in Procs /\ p \notin Counting(k)'
                BY <3>2 DEF Counting
            <4> QED BY <1>2, <3>2, <4>1
        <3> QED BY <3>1, <3>2
    <2>3. StampsOn(k)' \subseteq StampsOn(k)
        BY DEF StampsOn
    <2> QED BY <2>2, <2>3, NoMoreStamps
<1> QED BY <1>1, <1>2

(* One handler goes on. *)
LEMMA SlotsMove ==
    ASSUME TypeInv, SlotsAreKept, NEW p \in Procs, NEW s, NEW j, GotoWith(p, s, j),
           SlotsFit(s, j), UNCHANGED config
    PROVE  SlotsAreKept'
<1> SUFFICES ASSUME NEW q \in Procs PROVE SlotsFit(pc[q], job[q])'
    BY DEF SlotsAreKept
<1>1. CASE q = p
    <2>1. pc'[q] = s /\ job'[q] = j
        BY <1>1, OthersStay DEF TypeInv
    <2> QED BY <2>1 DEF SlotsFit
<1>2. CASE q # p
    <2>1. pc'[q] = pc[q] /\ job'[q] = job[q]
        BY <1>2, OthersStay DEF TypeInv
    <2> QED BY <2>1 DEF SlotsFit, SlotsAreKept
<1> QED BY <1>1, <1>2

LEMMA FullMove ==
    ASSUME TypeInv, TypeInv', CardsMove, SlotsAreKept, FullAreCounted,
           NEW p \in Procs, NEW s, NEW j, GotoWith(p, s, j), SlotsFit(s, j),
           UNCHANGED <<config, stamp>>, undone \subseteq undone',
           pc[p] \in CountingPCs /\ job[p].op = "stamp" =>
               \/ s \in CountingPCs /\ j.op = "stamp" /\ j.card = job[p].card
               \/ card'[job[p].card].status # "open"
               \/ CountStamps(job[p].card) < config.slots
    PROVE  SlotsAreKept' /\ FullAreCounted'
<1>1. SlotsAreKept'
    BY SlotsMove
<1>2. ASSUME NEW q \in Procs, NEW k \in DOMAIN card, q \in Counting(k)
      PROVE  \/ q \in Counting(k)'
             \/ card'[k].status # "open"
             \/ CountStamps(k) < config.slots
    <2>1. pc[q] \in CountingPCs /\ job[q].op = "stamp" /\ job[q].card = k
        BY <1>2 DEF Counting
    <2>2. CASE q # p
        <3>1. pc'[q] = pc[q] /\ job'[q] = job[q]
            BY <2>2, OthersStay DEF TypeInv
        <3> QED BY <2>1, <3>1 DEF Counting
    <2>3. CASE q = p
        <3>1. pc'[q] = s /\ job'[q] = j
            BY <2>3, OthersStay DEF TypeInv
        <3> QED BY <2>1, <2>3, <3>1 DEF Counting
    <2> QED BY <2>2, <2>3
<1>3. FullAreCounted'
    BY <1>2, CountedMove
<1> QED BY <1>1, <1>3

(* A handler that goes on somewhere it neither stamps nor has stamped. *)
LEMMA FullFinish ==
    ASSUME TypeInv, TypeInv', CardsMove, SlotsAreKept, FullAreCounted,
           NEW p \in Procs, Finish(p), UNCHANGED <<config, stamp>>, undone \subseteq undone',
           pc[p] \in CountingPCs /\ job[p].op = "stamp" =>
               \/ card'[job[p].card].status # "open"
               \/ CountStamps(job[p].card) < config.slots
    PROVE  SlotsAreKept' /\ FullAreCounted'
<1>1. GotoWith(p, "idle", NoJob)
    BY DEF Finish
<1>2. SlotsFit("idle", NoJob)
    BY DEF SlotsFit, StampPCs
<1> QED BY <1>1, <1>2, FullMove

LEMMA FullGoto ==
    ASSUME TypeInv, TypeInv', CardsMove, SlotsAreKept, FullAreCounted,
           NEW p \in Procs, NEW s, Goto(p, s), SlotsFit(s, job[p]),
           UNCHANGED <<config, stamp>>, undone \subseteq undone',
           pc[p] \in CountingPCs /\ job[p].op = "stamp" => s \in CountingPCs
    PROVE  SlotsAreKept' /\ FullAreCounted'
<1>1. GotoWith(p, s, job[p])
    BY GotoIsGotoWith DEF TypeInv
<1> QED BY <1>1, FullMove

LEMMA FullBegin ==
    ASSUME TypeInv, TypeInv', CardsMove, SlotsAreKept, FullAreCounted,
           NEW p \in Procs, NEW s, NEW j, Begin(p, s, j), SlotsFit(s, j),
           UNCHANGED <<config, stamp, undone>>
    PROVE  SlotsAreKept' /\ FullAreCounted'
<1>1. GotoWith(p, s, j) /\ pc[p] \notin CountingPCs
    BY DEF Begin, GotoWith, CountingPCs
<1> QED BY <1>1, FullMove

LEMMA FullAccept ==
    ASSUME TypeInv, TypeInv', CardsMove, SlotsAreKept, FullAreCounted,
           NEW p \in Procs, Accept(p)
    PROVE  SlotsAreKept' /\ FullAreCounted'
<1>1. UNCHANGED <<config, stamp, undone>>
    BY DEF Accept, CheckCard, Redeem, AddStamp, UndoLastStamp, ConfirmRedemption, tables
<1>2. ASSUME NEW op, NEW c, NEW w, Begin(p, "getOpenCard", ConfigJob(op, c, w))
      PROVE  SlotsAreKept' /\ FullAreCounted'
    <2>1. PICK j : j = ConfigJob(op, c, w)
        OBVIOUS
    <2>2. j.slots = config.slots
        BY <2>1 DEF ConfigJob, NoJob
    <2>3. SlotsFit("getOpenCard", j)
        BY <2>2 DEF SlotsFit
    <2> QED BY <1>1, <1>2, <2>1, <2>3, FullBegin
<1>3. ASSUME NEW s \in {"idle", "getCard", "markRedeemed"}, NEW j, Begin(p, s, j)
      PROVE  SlotsAreKept' /\ FullAreCounted'
    <2>1. SlotsFit(s, j)
        BY <1>3 DEF SlotsFit, StampPCs
    <2> QED BY <1>1, <1>3, <2>1, FullBegin
<1>4. CASE CheckCard(p) \/ Redeem(p) \/ AddStamp(p)
    BY <1>2, <1>4 DEF CheckCard, Redeem, AddStamp
<1>5. CASE UndoLastStamp(p) \/ ConfirmRedemption(p)
    <2>1. \E s \in {"idle", "getCard", "markRedeemed"} : \E j : Begin(p, s, j)
        BY <1>5 DEF UndoLastStamp, ConfirmRedemption
    <2> QED BY <1>3, <2>1
<1> QED BY <1>4, <1>5 DEF Accept

LEMMA FullWithoutCard ==
    ASSUME TypeInv, TypeInv', CardsMove, SlotsAreKept, FullAreCounted,
           NEW p \in Procs, pc[p] \in {"getOpenCard", "cancelCard"}, WithoutCard(p),
           UNCHANGED <<config, stamp, undone>>
    PROVE  SlotsAreKept' /\ FullAreCounted'
<1>1. pc[p] \notin CountingPCs /\ pc[p] \in StampPCs
    BY DEF CountingPCs, StampPCs
<1>2. SlotsFit(pc[p], job[p])
    BY DEF SlotsAreKept
<1>3. CASE Finish(p)
    BY <1>1, <1>3, FullFinish
<1>4. CASE job[p].op = "redeem" /\ Goto(p, "listCards")
    <2>1. SlotsFit("listCards", job[p])
        BY DEF SlotsFit, StampPCs
    <2> QED BY <1>1, <1>4, <2>1, FullGoto
<1>5. CASE job[p].op = "stamp" /\ Goto(p, "openCard")
    <2>1. SlotsFit("openCard", job[p])
        BY <1>1, <1>2, <1>5 DEF SlotsFit
    <2> QED BY <1>1, <1>5, <2>1, FullGoto
<1> QED BY <1>3, <1>4, <1>5 DEF WithoutCard

LEMMA FullGetOpenCard ==
    ASSUME TypeInv, TypeInv', CardsMove, SlotsAreKept, FullAreCounted,
           NEW p \in Procs, GetOpenCard(p)
    PROVE  SlotsAreKept' /\ FullAreCounted'
<1>1. /\ pc[p] = "getOpenCard" /\ UNCHANGED <<config, stamp, undone>>
    BY DEF GetOpenCard, NoWrite, tables
<1>2. pc[p] \notin CountingPCs /\ pc[p] \in StampPCs
    BY <1>1 DEF CountingPCs, StampPCs
<1>3. job[p] \in Job /\ (job[p].op = "stamp" => job[p].slots = config.slots)
    BY <1>2, JobOf DEF SlotsAreKept, SlotsFit
<1>4. CASE WithoutCard(p)
    BY <1>1, <1>4, FullWithoutCard
<1>5. CASE ~WithoutCard(p)
    <2>1. PICK k : \/ GotoWith(p, "cancelCard", [job[p] EXCEPT !.card = k])
                   \/ WithCard(p, k)
        BY <1>5 DEF GetOpenCard
    <2>2. PICK j : j = [job[p] EXCEPT !.card = k]
        OBVIOUS
    <2>3. j.op = job[p].op /\ j.slots = job[p].slots
        BY <1>3, <2>2 DEF Job
    <2>4. SlotsFit("cancelCard", j) /\ SlotsFit("countStamps", j)
        BY <1>3, <2>3 DEF SlotsFit
    <2>5. job[p].op = "stamp" => SlotsFit("insertStamp", j)
        BY <1>3, <2>3 DEF SlotsFit
    <2>6. \/ GotoWith(p, "cancelCard", j)
          \/ GotoWith(p, "countStamps", j)
          \/ job[p].op = "stamp" /\ GotoWith(p, "insertStamp", j)
        BY <2>1, <2>2 DEF WithCard
    <2> QED BY <1>1, <1>2, <2>4, <2>5, <2>6, FullMove
<1> QED BY <1>4, <1>5

LEMMA FullOpenCard ==
    ASSUME TypeInv, TypeInv', CardsMove, SlotsAreKept, FullAreCounted,
           NEW p \in Procs, OpenCard(p)
    PROVE  SlotsAreKept' /\ FullAreCounted'
<1>1. /\ pc[p] = "openCard" /\ UNCHANGED <<config, stamp, undone>>
    BY DEF OpenCard
<1>2. pc[p] \notin CountingPCs /\ pc[p] \in StampPCs
    BY <1>1 DEF CountingPCs, StampPCs
<1>3. job[p] \in Job /\ job[p].op = "stamp" /\ job[p].slots = config.slots
    BY <1>1, <1>2, JobOf DEF SlotsAreKept, SlotsFit
<1>4. CASE Finish(p)
    BY <1>1, <1>2, <1>4, FullFinish
<1>5. CASE ~Finish(p)
    <2>1. PICK j : j = [job[p] EXCEPT !.card = Len(card) + 1]
        OBVIOUS
    <2>2. GotoWith(p, "insertStamp", j)
        BY <1>5, <2>1 DEF OpenCard
    <2>3. j.op = job[p].op /\ j.slots = job[p].slots
        BY <1>3, <2>1 DEF Job
    <2>4. SlotsFit("insertStamp", j)
        BY <1>3, <2>3 DEF SlotsFit
    <2> QED BY <1>1, <1>2, <2>2, <2>4, FullMove
<1> QED BY <1>4, <1>5

(* The handler that stamps will count. *)
LEMMA FullInsertStamp ==
    ASSUME TypeInv, TypeInv', CardsMove, SlotsAreKept, FullAreCounted,
           NEW p \in Procs, InsertStamp(p)
    PROVE  SlotsAreKept' /\ FullAreCounted'
<1>1. /\ pc[p] = "insertStamp" /\ UNCHANGED <<config, card, undone>>
    BY DEF InsertStamp
<1>2. job[p].op = "stamp" /\ job[p].slots = config.slots
    BY <1>1 DEF SlotsAreKept, SlotsFit, StampPCs
<1>3. GotoWith(p, "countStamps", job[p]) /\ SlotsFit("countStamps", job[p])
    BY <1>2, GotoIsGotoWith DEF InsertStamp, TypeInv, SlotsFit
<1>4. SlotsAreKept'
    BY <1>1, <1>3, SlotsMove
<1>5. ASSUME NEW k \in DOMAIN card', card'[k].status = "open", Counting(k)' = {}
      PROVE  CountStamps(k)' < config'.slots
    <2>1. k # job[p].card
        <3>1. ASSUME k = job[p].card PROVE FALSE
            <4>1. pc'[p] = "countStamps" /\ job'[p] = job[p]
                BY <1>3, OthersStay DEF TypeInv
            <4>2. p \in Counting(k)'
                BY <1>2, <3>1, <4>1 DEF Counting, CountingPCs
            <4> QED BY <1>5, <4>2
        <3> QED BY <3>1
    <2>2. Counting(k) = {}
        <3>1. ASSUME NEW q \in Counting(k) PROVE FALSE
            <4>1. q \in Procs /\ q # p
                BY <1>1, <3>1 DEF Counting, CountingPCs
            <4>2. pc'[q] = pc[q] /\ job'[q] = job[q]
                BY <1>3, <4>1, OthersStay DEF TypeInv
            <4>3. q \in Counting(k)'
                BY <3>1, <4>1, <4>2 DEF Counting
            <4> QED BY <1>5, <4>3
        <3> QED BY <3>1
    <2>3. CountStamps(k) < config.slots
        BY <1>1, <1>5, <2>2 DEF FullAreCounted
    <2>4. StampsOn(k)' \subseteq StampsOn(k)
        <3> DEFINE row == [card |-> job[p].card, by |-> job[p].by]
        <3>1. row \in Stamp
            <4>1. Len(card) \in Nat
                BY CardRows DEF TypeInv
            <4>2. job[p].card \in 1..Len(card) /\ job[p].by \in Collaborators
                BY <1>1, JobOf DEF JobFits, CardPCs
            <4>3. job[p].card \in Nat \ {0}
                BY <4>1, <4>2
            <4> QED BY <4>2, <4>3 DEF Stamp
        <3>2. row.card # k
            BY <2>1
        <3>3. stamp' = Append(stamp, row) /\ stamp \in Seq(Stamp)
            BY DEF InsertStamp, TypeInv, TypeOK
        <3> HIDE DEF row
        <3>4. /\ Len(stamp') = Len(stamp) + 1 /\ Len(stamp) \in Nat
              /\ DOMAIN stamp = 1..Len(stamp) /\ DOMAIN stamp' = 1..Len(stamp')
              /\ \A i \in 1..Len(stamp) : stamp'[i] = stamp[i]
              /\ stamp'[Len(stamp) + 1] = row
            BY <3>1, <3>3, AppendProperties, LenProperties
        <3>5. ASSUME NEW i \in StampsOn(k)' PROVE i \in StampsOn(k)
            <4>1. i \in DOMAIN stamp' \ undone /\ stamp'[i].card = k
                BY <1>1, <3>5 DEF StampsOn
            <4>2. i \in 1..Len(stamp)
                BY <3>2, <3>4, <4>1
            <4> QED BY <3>4, <4>1, <4>2 DEF StampsOn
        <3> QED BY <3>5
    <2> QED BY <1>1, <2>3, <2>4, NoMoreStamps
<1> QED BY <1>4, <1>5 DEF FullAreCounted

(* A handler that finds too few stamps has counted them all. *)
LEMMA FullReadCount ==
    ASSUME TypeInv, TypeInv', CardsMove, SlotsAreKept, FullAreCounted,
           NEW p \in Procs, ReadCount(p)
    PROVE  SlotsAreKept' /\ FullAreCounted'
<1>1. /\ pc[p] = "countStamps" /\ UNCHANGED <<config, stamp, undone>>
    BY DEF ReadCount, NoWrite, tables
<1>2. job[p].op = "stamp" => job[p].slots = config.slots
    BY <1>1 DEF SlotsAreKept, SlotsFit, StampPCs
<1>3. SlotsFit("completeCard", job[p]) /\ SlotsFit("listCards", job[p])
    BY DEF SlotsFit, StampPCs
<1>4. CASE job[p].op = "stamp" /\ Goto(p, "completeCard")
    BY <1>1, <1>3, <1>4, FullGoto DEF CountingPCs
<1>5. CASE job[p].op = "redeem" /\ Goto(p, "listCards")
    <2>1. job[p].op # "stamp"
        BY <1>5
    <2> QED BY <1>1, <1>3, <1>5, <2>1, FullGoto
<1>6. CASE (job[p].op = "check" \/ ~Full(p)) /\ Finish(p)
    <2>1. job[p].op = "stamp" => CountStamps(job[p].card) < config.slots
        <3>1. CountStamps(job[p].card) \in Nat /\ config.slots \in Nat
            BY StampRows, SlotsType DEF TypeInv
        <3> QED BY <1>2, <1>6, <3>1 DEF Full
    <2> QED BY <1>1, <1>6, <2>1, FullFinish
<1> QED BY <1>4, <1>5, <1>6 DEF ReadCount

LEMMA FullCompleteCard ==
    ASSUME TypeInv, TypeInv', CardsMove, SlotsAreKept, FullAreCounted,
           NEW p \in Procs, CompleteCard(p)
    PROVE  SlotsAreKept' /\ FullAreCounted'
<1>1. /\ pc[p] = "completeCard" /\ Finish(p)
      /\ UNCHANGED <<config, stamp, undone>> /\ CompleteIfOpen(job[p].card)
    BY DEF CompleteCard
<1>2. job[p].card \in DOMAIN card
    BY <1>1, JobOf, CardRows DEF JobFits, CardPCs, TypeInv
<1>3. card'[job[p].card].status # "open"
    <2>1. PICK k : k = job[p].card
        OBVIOUS
    <2>2. card[k] \in Card
        BY <1>2, <2>1, CardRows DEF TypeInv
    <2>3. CASE card[k].status # "open"
        BY <1>1, <2>1, <2>3 DEF CompleteIfOpen
    <2>4. CASE card[k].status = "open"
        <3>1. PICK n : card' = [card EXCEPT ![k].status = "completed", ![k].at = n]
            BY <1>1, <2>1, <2>4 DEF CompleteIfOpen
        <3>2. card'[k].status = "completed"
            BY <1>2, <2>1, <2>2, <3>1 DEF Card
        <3> QED BY <2>1, <3>2
    <2> QED BY <2>3, <2>4
<1> QED BY <1>1, <1>3, FullFinish

LEMMA FullStep ==
    ASSUME TypeInv, TypeInv', CardsMove, SlotsAreKept, FullAreCounted,
           NEW p \in Procs, Step(p)
    PROVE  SlotsAreKept' /\ FullAreCounted'
<1>1. ASSUME NEW s \in {"reopenCard", "deleteStamp", "setCode"}, NEW j, GotoWith(p, s, j),
             pc[p] \notin CountingPCs, UNCHANGED <<config, stamp>>, undone \subseteq undone'
      PROVE  SlotsAreKept' /\ FullAreCounted'
    <2>1. SlotsFit(s, j)
        BY <1>1 DEF SlotsFit, StampPCs
    <2> QED BY <1>1, <2>1, FullMove
<1>2. CASE CancelCard(p)
    BY <1>2, FullWithoutCard DEF CancelCard
<1>3. CASE GetCard(p) \/ DeleteStamp(p) \/ ReopenCard(p)
            \/ ListCards(p) \/ SetCode(p) \/ MarkRedeemed(p)
    <2>1. /\ UNCHANGED <<config, stamp>> /\ undone \subseteq undone'
          /\ pc[p] \notin CountingPCs
        BY <1>3 DEF GetCard, DeleteStamp, ReopenCard, ListCards, SetCode, MarkRedeemed,
                    NoWrite, tables, CountingPCs
    <2>2. \/ Finish(p)
          \/ \E s \in {"reopenCard", "deleteStamp", "setCode"} :
                Goto(p, s) \/ \E j : GotoWith(p, s, j)
        BY <1>3 DEF GetCard, DeleteStamp, ReopenCard, ListCards, SetCode, MarkRedeemed
    <2>3. ASSUME NEW s \in {"reopenCard", "deleteStamp", "setCode"}, Goto(p, s)
          PROVE  SlotsAreKept' /\ FullAreCounted'
        <3>1. GotoWith(p, s, job[p])
            BY <2>3, GotoIsGotoWith DEF TypeInv
        <3> QED BY <1>1, <2>1, <3>1
    <2> QED BY <1>1, <2>1, <2>2, <2>3, FullFinish
<1> QED BY <1>2, <1>3, FullGetOpenCard, FullOpenCard, FullInsertStamp, FullReadCount,
           FullCompleteCard DEF Step

LEMMA FullNext == TypeInv /\ FullInv /\ [Next]_vars => FullInv'
<1> SUFFICES ASSUME TypeInv, FullInv, [Next]_vars, failures' = 0, configUpdates' = 0
             PROVE  SlotsAreKept' /\ FullAreCounted'
    BY DEF FullInv
<1>1. TypeInv' /\ CardsMove
    BY TypeNext
<1>2. failures \in Nat /\ configUpdates \in Nat
    BY DEF TypeInv, TypeOK
<1>3. ASSUME NEW p \in Procs, Accept(p) PROVE SlotsAreKept' /\ FullAreCounted'
    <2>1. UNCHANGED <<failures, configUpdates>>
        BY <1>3 DEF Accept, CheckCard, Redeem, AddStamp, UndoLastStamp, ConfirmRedemption
    <2> QED BY <1>1, <1>3, <2>1, FullAccept DEF FullInv
<1>4. ASSUME NEW p \in Procs, Step(p) PROVE SlotsAreKept' /\ FullAreCounted'
    <2>1. UNCHANGED <<failures, configUpdates>>
        BY <1>4 DEF Step, GetOpenCard, CancelCard, OpenCard, InsertStamp, ReadCount,
           CompleteCard, GetCard, DeleteStamp, ReopenCard, ListCards, SetCode,
           MarkRedeemed, NoWrite, counts
    <2> QED BY <1>1, <1>4, <2>1, FullStep DEF FullInv
<1>5. ASSUME NEW p \in Procs PROVE ~Abort(p) /\ ~RestoreCode(p)
    BY <1>2 DEF Abort, RestoreCode, Fail
<1>6. ~UpsertConfig
    BY <1>2 DEF UpsertConfig
<1>7. CASE Clock \/ Quiescent \/ UNCHANGED vars
    <2>1. UNCHANGED <<failures, configUpdates, pc, job, config, card, stamp, undone>>
        BY <1>7 DEF Clock, AgeCard, SettleStamp, ExpireCode, Quiescent, vars, tables, counts
    <2>2. SlotsAreKept /\ FullAreCounted
        BY <2>1 DEF FullInv
    <2>3. SlotsAreKept'
        BY <2>1, <2>2 DEF SlotsAreKept, SlotsFit
    <2>4. \A q \in Procs : \A k : q \in Counting(k) => q \in Counting(k)'
        BY <2>1 DEF Counting
    <2>5. FullAreCounted'
        BY <1>1, <2>1, <2>2, <2>4, CountedMove
    <2> QED BY <2>3, <2>5
<1> QED BY <1>3, <1>4, <1>5, <1>6, <1>7 DEF Next

(***************************************************************************)
(* However many employees stamp one client's card and undo at once: when   *)
(* the handlers are done, every card with all its stamps is complete.  Each *)
(* counts after its own stamp, so the last of them counts every stamp.     *)
(***************************************************************************)
THEOREM FullCardCorrect == Spec => []FullCardIsCompleted
<1>1. Init => FullInv
    <2> SUFFICES ASSUME Init PROVE SlotsAreKept /\ FullAreCounted
        BY DEF FullInv
    <2>1. SlotsAreKept
        BY DEF Init, SlotsAreKept, SlotsFit, StampPCs
    <2>2. DOMAIN card = {}
        BY DEF Init
    <2> QED BY <2>1, <2>2 DEF FullAreCounted
<1>2. FullInv => FullCardIsCompleted
    <2> SUFFICES ASSUME FullInv, \A p \in Procs : pc[p] = "idle",
                        failures = 0, configUpdates = 0,
                        NEW c \in Clients, NEW k \in OpenCards(c)
                 PROVE  CountStamps(k) < config.slots
        BY DEF FullCardIsCompleted
    <2>1. k \in DOMAIN card /\ card[k].status = "open"
        BY DEF OpenCards
    <2>2. Counting(k) = {}
        BY DEF Counting, CountingPCs
    <2> QED BY <2>1, <2>2 DEF FullInv, FullAreCounted
<1> QED BY <1>1, <1>2, FullNext, TypeAlways, PTL DEF Spec

=============================================================================
