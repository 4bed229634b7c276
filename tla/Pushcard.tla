------------------------------ MODULE Pushcard ------------------------------
(***************************************************************************)
(* The stamp card of fidel-quick: internal/modules/pushcard (service,      *)
(* repository, Redis codes, WhatsApp command handlers) for one             *)
(* customer_sisfi.                                                         *)
(*                                                                         *)
(* No operation of this module opens a transaction: each statement commits *)
(* on its own, and between two of them the handlers of other messages      *)
(* take theirs.  A handler is a process that takes one step per statement  *)
(* and carries what it has read in job[p].                                 *)
(***************************************************************************)
EXTENDS Integers, Sequences, FiniteSets

CONSTANTS
    Clients,          \* clients of the program
    Collaborators,    \* employees who stamp, undo and confirm
    Codes,            \* codes generateCode may draw
    Procs,            \* goroutines handling messages at the same time
    Slots,            \* card_slots an admin may set
    Expiry,           \* whether an admin may set card_expiry_days, or leave it NULL
    ListLimit,        \* cards RequestRedemption looks at (50 in the code)
    Nil,              \* an unset field
    MaxMessages,      \* bound: messages handled in a behaviour
    MaxConfigUpdates, \* bound: config updates by the admin in a behaviour
    MaxFailures       \* bound: handlers that fail in a behaviour

ASSUME ConfigAssumption ==
    Slots \subseteq Nat \ {0} /\ Expiry \subseteq BOOLEAN

ASSUME SetsAssumption == Nil \notin Clients \cup Collaborators \cup Codes

ASSUME BoundsAssumption ==
    {ListLimit, MaxMessages, MaxConfigUpdates, MaxFailures} \subseteq Nat

VARIABLES
    config,        \* pushcard_config: card_slots, and whether cards expire
    card,          \* pushcard_cards, in the order they were opened
    stamp,         \* pushcard_stamps, in the order they were inserted
    undone,        \* stamps that were deleted
    code,          \* Redis: pc:redeem:{code}
    pc,            \* where each handler is
    job,           \* what each handler holds
    stale,         \* cards older than card_expiry_days
    settled,       \* stamps older than CorrectionWindow
    messages,      \* messages handled so far
    configUpdates, \* config updates so far
    failures,      \* handlers that failed so far
    issued,        \* history: how often each code was issued
    delivered      \* history: the "Entregá" replies, code and card

tables == <<config, card, stamp, undone>>
clocks == <<stale, settled>>
counts == <<messages, configUpdates, failures>>
history == <<issued, delivered>>
vars == <<tables, code, pc, job, clocks, counts, history>>

-----------------------------------------------------------------------------
(* Rows and records *)

Config == [slots : Slots, expires : Expiry]

(* at: the place of completed_at among the completed cards, 0 when NULL.   *)
Card == [client : Clients,
         status : {"open", "completed", "redeemed", "cancelled"}, at : Nat]

Stamp == [card : Nat \ {0}, by : Collaborators]

NoCode == [card |-> 0, client |-> Nil]

RedemptionCode == [card : Nat \ {0}, client : Clients]

Job == [op : {"none", "check", "redeem", "stamp", "undo", "confirm"},
        client : Clients \cup {Nil}, by : Collaborators \cup {Nil},
        slots : Nat, expires : BOOLEAN, card : Nat, stamp : Nat,
        status : {"none", "open", "completed", "redeemed"},
        code : Codes \cup {Nil}]

NoJob == [op |-> "none", client |-> Nil, by |-> Nil, slots |-> 0,
          expires |-> FALSE, card |-> 0, stamp |-> 0, status |-> "none",
          code |-> Nil]

PCs == {"idle", "getOpenCard", "cancelCard", "openCard", "insertStamp",
        "countStamps", "completeCard", "listCards", "setCode",
        "markRedeemed", "getCard", "deleteStamp", "reopenCard"}

OpenCards(c) ==
    {k \in DOMAIN card : card[k].client = c /\ card[k].status = "open"}

StampsOn(k) == {i \in DOMAIN stamp \ undone : stamp[i].card = k}

CountStamps(k) == Cardinality(StampsOn(k))

-----------------------------------------------------------------------------
(* Handlers: beginning, moving on, ending *)

Begin(p, step, j) ==
    /\ pc[p] = "idle"
    /\ messages < MaxMessages
    /\ messages' = messages + 1
    /\ pc' = [pc EXCEPT ![p] = step]
    /\ job' = [job EXCEPT ![p] = j]

Goto(p, step) == pc' = [pc EXCEPT ![p] = step] /\ UNCHANGED job

GotoWith(p, step, j) == /\ pc' = [pc EXCEPT ![p] = step]
                        /\ job' = [job EXCEPT ![p] = j]

Finish(p) == GotoWith(p, "idle", NoJob)

(* What a step that only reads, or only moves on, leaves alone. *)
NoWrite == UNCHANGED <<tables, code, clocks, counts, history>>

ConfigJob(op, c, w) ==
    [NoJob EXCEPT !.op = op, !.client = c, !.by = w,
                  !.slots = config.slots, !.expires = config.expires]

-----------------------------------------------------------------------------
(* The client's open card, for every operation that looks at it *)

(* handleCheckCard, handleRedeem and handleAddStamp read the config first. *)
CheckCard(p) ==
    \E c \in Clients :
        /\ Begin(p, "getOpenCard", ConfigJob("check", c, Nil))
        /\ UNCHANGED <<tables, code, clocks, configUpdates, failures, history>>

Redeem(p) ==
    \E c \in Clients :
        /\ Begin(p, "getOpenCard", ConfigJob("redeem", c, Nil))
        /\ UNCHANGED <<tables, code, clocks, configUpdates, failures, history>>

AddStamp(p) ==
    \E c \in Clients, w \in Collaborators :
        /\ Begin(p, "getOpenCard", ConfigJob("stamp", c, w))
        /\ UNCHANGED <<tables, code, clocks, configUpdates, failures, history>>

(* How each goes on when the client has no open card. *)
WithoutCard(p) == \/ job[p].op = "check" /\ Finish(p)
                  \/ job[p].op = "redeem" /\ Goto(p, "listCards")
                  \/ job[p].op = "stamp" /\ Goto(p, "openCard")

WithCard(p, k) ==
    GotoWith(p, IF job[p].op = "stamp" THEN "insertStamp" ELSE "countStamps",
             [job[p] EXCEPT !.card = k])

(* GetOpenCard, and the test of expireIfStale on the card it returned. *)
GetOpenCard(p) ==
    /\ pc[p] = "getOpenCard"
    /\ \/ OpenCards(job[p].client) = {} /\ WithoutCard(p)
       \/ \E k \in OpenCards(job[p].client) :
            IF job[p].expires /\ k \in stale
            THEN GotoWith(p, "cancelCard", [job[p] EXCEPT !.card = k])
            ELSE WithCard(p, k)
    /\ NoWrite

(* UPDATE ... WHERE id = $1 AND status = 'open', as in CancelCard,         *)
(* CompleteCard and MarkRedeemed; how many rows it touched is not asked.   *)
SetStatus(k, from, to) ==
    card' = [card EXCEPT ![k].status = IF @ = from THEN to ELSE @]

CancelCard(p) ==
    /\ pc[p] = "cancelCard"
    /\ SetStatus(job[p].card, "open", "cancelled")
    /\ WithoutCard(p)
    /\ UNCHANGED <<config, stamp, undone, code, clocks, counts, history>>

(* Faulty variant: no unique index on the open cards. *)
InsertAnyCard(c) ==
    card' = Append(card, [client |-> c, status |-> "open", at |-> 0])

(* The INSERT of an open card, which the partial unique index allows only  *)
(* when the client has none.                                               *)
InsertCard(c) ==
    /\ OpenCards(c) = {}
    /\ card' = Append(card, [client |-> c, status |-> "open", at |-> 0])

-----------------------------------------------------------------------------
(* Stamping a card *)

OpenCard(p) ==
    /\ pc[p] = "openCard"
    /\ \/ /\ InsertCard(job[p].client)
          /\ GotoWith(p, "insertStamp", [job[p] EXCEPT !.card = Len(card) + 1])
       \/ OpenCards(job[p].client) # {} /\ Finish(p) /\ UNCHANGED card
    /\ UNCHANGED <<config, stamp, undone, code, clocks, counts, history>>

(* The INSERT does not ask for the status of the card. *)
InsertStamp(p) ==
    /\ pc[p] = "insertStamp"
    /\ stamp' = Append(stamp, [card |-> job[p].card, by |-> job[p].by])
    /\ Goto(p, "countStamps")
    /\ UNCHANGED <<config, card, undone, code, clocks, counts, history>>

(* Faulty variant: off by one. *)
Overfull(p) == CountStamps(job[p].card) > job[p].slots

Full(p) == CountStamps(job[p].card) >= job[p].slots

(* AddStamp completes a full card, handleRedeem goes on with one, and      *)
(* handleCheckCard only shows the count.                                   *)
ReadCount(p) ==
    /\ pc[p] = "countStamps"
    /\ \/ job[p].op = "stamp" /\ Full(p) /\ Goto(p, "completeCard")
       \/ job[p].op = "redeem" /\ Full(p) /\ Goto(p, "listCards")
       \/ (job[p].op = "check" \/ ~Full(p)) /\ Finish(p)
    /\ NoWrite

(* Faulty variant: an UPDATE that does not ask for the status. *)
CompleteAny(k) ==
    card' = [card EXCEPT ![k].status = "completed",
                         ![k].at = Cardinality({j \in DOMAIN card : card[j].at > 0}) + 1]

CompleteIfOpen(k) ==
    card' = IF card[k].status # "open" THEN card
            ELSE [card EXCEPT
                    ![k].status = "completed",
                    ![k].at = Cardinality({j \in DOMAIN card : card[j].at > 0}) + 1]

CompleteCard(p) ==
    /\ pc[p] = "completeCard"
    /\ CompleteIfOpen(job[p].card)
    /\ Finish(p)
    /\ UNCHANGED <<config, stamp, undone, code, clocks, counts, history>>

-----------------------------------------------------------------------------
(* Undoing a stamp *)

LastStamps(w) ==
    {i \in DOMAIN stamp \ (undone \cup settled) :
        /\ stamp[i].by = w
        /\ \A j \in DOMAIN stamp \ undone : stamp[j].by = w => j <= i}

(* UndoLastStamp, its first query. *)
UndoLastStamp(p) ==
    \E w \in Collaborators :
        /\ \/ \E i \in LastStamps(w) :
                Begin(p, "getCard",
                      [NoJob EXCEPT !.op = "undo", !.by = w, !.stamp = i,
                                    !.card = stamp[i].card])
           \/ LastStamps(w) = {} /\ Begin(p, "idle", NoJob)
        /\ UNCHANGED <<tables, code, clocks, configUpdates, failures, history>>

(* Faulty variant: a card that was cancelled is not turned down. *)
AnyCard(row) == TRUE

Undoable(row) == row.status # "cancelled"

GetCard(p) ==
    LET row == card[job[p].card]
    IN  /\ pc[p] = "getCard"
        /\ \/ ~Undoable(row) /\ Finish(p)
           \/ /\ Undoable(row)
              /\ GotoWith(p, "deleteStamp",
                          [job[p] EXCEPT !.status = row.status,
                                         !.client = row.client])
        /\ NoWrite

DeleteStamp(p) ==
    /\ pc[p] = "deleteStamp"
    /\ undone' = undone \cup {job[p].stamp}
    /\ IF job[p].status = "completed" THEN Goto(p, "reopenCard") ELSE Finish(p)
    /\ UNCHANGED <<config, card, stamp, code, clocks, counts, history>>

(* A new card is opened; that the client has one already is only logged.   *)
ReopenCard(p) ==
    /\ pc[p] = "reopenCard"
    /\ \/ InsertCard(job[p].client)
       \/ OpenCards(job[p].client) # {} /\ UNCHANGED card
    /\ Finish(p)
    /\ UNCHANGED <<config, stamp, undone, code, clocks, counts, history>>

-----------------------------------------------------------------------------
(* Redeeming a completed card *)

(* Faulty variant: an empty status, which lists the cards of any status. *)
AnyStatus == {k \in DOMAIN card : card[k].status # "cancelled"}

Completed == {k \in DOMAIN card : card[k].status = "completed"}

(* ListCardsByCustomer: the last to be completed, of all clients. *)
Listed == {k \in Completed :
              Cardinality({j \in Completed : card[j].at > card[k].at}) < ListLimit}

Mine(c) == {k \in Listed : card[k].client = c}

ListCards(p) ==
    /\ pc[p] = "listCards"
    /\ \/ Mine(job[p].client) = {} /\ Finish(p)
       \/ \E k \in Mine(job[p].client) :
            /\ \A j \in Mine(job[p].client) : card[j].at <= card[k].at
            /\ GotoWith(p, "setCode", [job[p] EXCEPT !.card = k])
    /\ NoWrite

SetRedemption(k, j) ==
    code' = [code EXCEPT ![k] = [card |-> j.card, client |-> j.client]]

SetCode(p) ==
    /\ pc[p] = "setCode"
    /\ \E k \in Codes :
        /\ SetRedemption(k, job[p])
        /\ issued' = [issued EXCEPT ![k] = @ + 1]
    /\ Finish(p)
    /\ UNCHANGED <<tables, clocks, counts, delivered>>

(* Faulty variant: a GET in the place of GETDEL. *)
GetRedemption(k) == UNCHANGED code

(* ConsumeRedemption: GETDEL. *)
ConsumeRedemption(k) == code' = [code EXCEPT ![k] = NoCode]

ConfirmRedemption(p) ==
    \E k \in Codes, w \in Collaborators :
        /\ code[k] # NoCode
        /\ ConsumeRedemption(k)
        /\ Begin(p, "markRedeemed",
                 [NoJob EXCEPT !.op = "confirm", !.by = w, !.code = k,
                               !.card = code[k].card, !.client = code[k].client])
        /\ UNCHANGED <<tables, clocks, configUpdates, failures, history>>

MarkRedeemed(p) ==
    /\ pc[p] = "markRedeemed"
    /\ SetStatus(job[p].card, "completed", "redeemed")
    /\ delivered' = Append(delivered, [code |-> job[p].code, card |-> job[p].card])
    /\ Finish(p)
    /\ UNCHANGED <<config, stamp, undone, code, clocks, counts, issued>>

-----------------------------------------------------------------------------
(* What can happen at any time *)

Fail == failures < MaxFailures /\ failures' = failures + 1

(* A statement fails or the server goes down: what was done stays done. *)
Abort(p) ==
    /\ pc[p] # "idle"
    /\ Fail
    /\ Finish(p)
    /\ UNCHANGED <<tables, code, clocks, messages, configUpdates, history>>

(* ConfirmRedemption puts the code back when MarkRedeemed reports an       *)
(* error; the update itself may have been committed.                       *)
RestoreCode(p) ==
    /\ pc[p] = "markRedeemed"
    /\ Fail
    /\ SetRedemption(job[p].code, job[p])
    /\ SetStatus(job[p].card, "completed", "redeemed") \/ UNCHANGED card
    /\ Finish(p)
    /\ UNCHANGED <<config, stamp, undone, clocks, messages, configUpdates, history>>

UpsertConfig ==
    /\ configUpdates < MaxConfigUpdates
    /\ configUpdates' = configUpdates + 1
    /\ config' \in Config
    /\ UNCHANGED <<card, stamp, undone, code, pc, job, clocks, messages,
                   failures, history>>

(* card_expiry_days, CorrectionWindow and redemptionTTL pass. *)
AgeCard(k) ==
    /\ k \in DOMAIN card \ stale
    /\ card[k].status = "open"
    /\ stale' = stale \cup {k}
    /\ UNCHANGED <<tables, code, pc, job, settled, counts, history>>

SettleStamp(i) ==
    /\ i \in DOMAIN stamp \ settled
    /\ \A j \in 1..(i - 1) : j \in settled
    /\ settled' = settled \cup {i}
    /\ UNCHANGED <<tables, code, pc, job, stale, counts, history>>

ExpireCode(k) ==
    /\ code[k] # NoCode
    /\ code' = [code EXCEPT ![k] = NoCode]
    /\ UNCHANGED <<tables, pc, job, clocks, counts, history>>

-----------------------------------------------------------------------------
(* The specification *)

Init ==
    /\ config \in Config
    /\ card = <<>> /\ stamp = <<>> /\ undone = {}
    /\ code = [k \in Codes |-> NoCode]
    /\ pc = [p \in Procs |-> "idle"]
    /\ job = [p \in Procs |-> NoJob]
    /\ stale = {} /\ settled = {}
    /\ messages = 0 /\ configUpdates = 0 /\ failures = 0
    /\ issued = [k \in Codes |-> 0]
    /\ delivered = <<>>

Accept(p) == \/ CheckCard(p) \/ Redeem(p) \/ AddStamp(p)
             \/ UndoLastStamp(p) \/ ConfirmRedemption(p)

Step(p) == \/ GetOpenCard(p) \/ CancelCard(p) \/ OpenCard(p)
           \/ InsertStamp(p) \/ ReadCount(p) \/ CompleteCard(p)
           \/ GetCard(p) \/ DeleteStamp(p) \/ ReopenCard(p)
           \/ ListCards(p) \/ SetCode(p) \/ MarkRedeemed(p)

Clock == \/ \E k \in DOMAIN card : AgeCard(k)
         \/ \E i \in DOMAIN stamp : SettleStamp(i)
         \/ \E k \in Codes : ExpireCode(k)

(* No more messages within the bound: waiting for the next one. *)
Quiescent ==
    /\ messages = MaxMessages
    /\ \A p \in Procs : pc[p] = "idle"
    /\ UNCHANGED vars

Next == \/ \E p \in Procs : \/ Accept(p) \/ Step(p)
                            \/ Abort(p) \/ RestoreCode(p)
        \/ UpsertConfig
        \/ Clock
        \/ Quiescent

Spec == Init /\ [][Next]_vars

-----------------------------------------------------------------------------
(* Properties *)

(* Every variable keeps to the rows and records the code can write.        *)
TypeOK ==
    /\ config \in Config
    /\ card \in Seq(Card)
    /\ stamp \in Seq(Stamp)
    /\ undone \subseteq Nat
    /\ code \in [Codes -> RedemptionCode \cup {NoCode}]
    /\ pc \in [Procs -> PCs]
    /\ job \in [Procs -> Job]
    /\ stale \subseteq Nat /\ settled \subseteq Nat
    /\ messages \in Nat /\ configUpdates \in Nat /\ failures \in Nat
    /\ issued \in [Codes -> Nat]
    /\ delivered \in Seq([code : Codes, card : Nat \ {0}])

(* OpenCard inserts without looking again: however many stamps, undos and  *)
(* lazy expirations of one client run at once, the client has one open     *)
(* card at most.                                                           *)
OneOpenCard == \A c \in Clients : Cardinality(OpenCards(c)) <= 1

(* CompleteCard, CancelCard and MarkRedeemed act on a status read several  *)
(* statements before: a card goes from open to completed or cancelled and  *)
(* from completed to redeemed, and never back, whatever the interleaving.  *)
MayBecome == [open |-> {"open", "completed", "cancelled"},
              completed |-> {"completed", "redeemed"},
              redeemed |-> {"redeemed"}, cancelled |-> {"cancelled"}]

LifecycleIsOneWay ==
    [][\A k \in DOMAIN card :
          /\ card'[k].client = card[k].client
          /\ card'[k].status \in MayBecome[card[k].status]]_vars

(* A code is for a card of its own client that was completed, and still is *)
(* when the code is confirmed, unless it has been redeemed meanwhile.      *)
CodesAreForCompletedCards ==
    /\ \A k \in Codes : code[k] # NoCode =>
        /\ card[code[k].card].client = code[k].client
        /\ card[code[k].card].status \in {"completed", "redeemed"}
    /\ \A p \in Procs : pc[p] \in {"setCode", "markRedeemed"} =>
        card[job[p].card].status \in {"completed", "redeemed"}

(* ConfirmRedemption: no reward is handed out for a card that is not       *)
(* redeemed by then, also when the update fails and the code is put back.  *)
DeliveredCardsAreRedeemed ==
    \A i \in DOMAIN delivered : card[delivered[i].card].status = "redeemed"

DeliveriesFor(k) == {i \in DOMAIN delivered : delivered[i].code = k}

(* ConsumeRedemption: a code hands out one reward at most each time it is  *)
(* issued, however many employees send it at once and however often it is  *)
(* put back.                                                               *)
CodeDeliversOnce ==
    \A k \in Codes : Cardinality(DeliveriesFor(k)) <= issued[k]

(* AddStamp: unless a handler fails halfway or the slots are changed, no   *)
(* card with all its stamps is open once the handlers are done, whoever    *)
(* stamped it and undid at the same time: the last stamp to arrive counts  *)
(* all of them.                                                            *)
FullCardIsCompleted ==
    /\ \A p \in Procs : pc[p] = "idle"
    /\ failures = 0
    /\ configUpdates = 0
    => \A c \in Clients : \A k \in OpenCards(c) : CountStamps(k) < config.slots

-----------------------------------------------------------------------------
(* What comments say and the code does not do *)

(* "AddStamp adds a stamp to the client's open card": it inserts into the  *)
(* card that was open some statements before, which another handler may    *)
(* have completed or cancelled, and the client loses the stamp.            *)
StampGoesToOpenCard ==
    [][\A i \in DOMAIN stamp' \ DOMAIN stamp :
          card[stamp'[i].card].status = "open"]_vars

(* "If removing the stamp uncompletes a card, the card is reverted to      *)
(* 'open'": the card stays completed, and can be redeemed, with less       *)
(* stamps than slots, and a new, empty one is opened.                      *)
UndoneCardIsReverted ==
    \A k \in Completed :
        \/ CountStamps(k) >= config.slots
        \/ \E p \in Procs : pc[p] # "idle" /\ job[p].card = k

(* ConfirmRedemption "atomically marks the card redeemed and consumes the  *)
(* code": a client may hold several codes for one card, and each of them   *)
(* is answered with a reward.                                              *)
CardDeliveredOnce ==
    \A i, j \in DOMAIN delivered : delivered[i].card = delivered[j].card => i = j

=============================================================================
