----------------------------- MODULE ProposalHost -----------------------------
(* The host of agent proposals (packages/blueprint-agent-host): a receipt is   *)
(* read, decided about and written back whole, over a store that keeps its     *)
(* receipts in memory or in a durable runtime (durable.ts), whose write is an  *)
(* append and a run of the engine.  One proposal id; what a proposal says is   *)
(* its content.                                                                *)
EXTENDS Integers, Sequences, SequencesExt, FiniteSets

CONSTANTS PhCallers,    \* calls of the host that may be under way together
          PhContents,   \* what is proposed under the one id
          MaxReceipts,
          PhScenarios   \* durable or not, whether a caller waits for the others, and for what an
                        \* interrupted call left behind; how many calls there are and how many
                        \* of them may be interrupted

ASSUME PhAssumption ==
    /\ PhScenarios \subseteq [durable : BOOLEAN, patient : BOOLEAN, calls : Nat, troubles : Nat]
    /\ MaxReceipts \in Nat

VARIABLES phStore,    \* id -> receipt: the map, or the committed snapshot
          phJournal,  \* appended receipts the engine has not committed
          phCall,     \* caller -> its call
          phApplied,  \* receipt id -> the content the authority has applied under it
          phUsed      \* the scenario, and the ids taken

phVars == <<phStore, phJournal, phCall, phApplied, phUsed>>

FinalStatuses == {"applied", "rejected", "failed"}
NewReceipt(content) ==
    [content |-> content, actor |-> "unknown", audit |-> <<"received">>, fields |-> {}]
Status(receipt) == Last(receipt.audit)

(* A call: the operation it is in, whether submit goes on from there, the
   receipt it works on as it was read, and what it is about to write. *)
PhIdle == [op |-> "none", at |-> "idle", chain |-> FALSE, id |-> 0, receipt |-> NewReceipt(0)]

PhInit ==
    /\ phUsed \in [scenario : PhScenarios, ids : {0}, calls : {0}, troubles : {0}]
    /\ phStore = <<>> /\ phJournal = <<>> /\ phApplied = <<>>
    /\ phCall = [c \in PhCallers |-> PhIdle]

PhGoto(c, call) == phCall' = [phCall EXCEPT ![c] = call]
PhReturn(c) == PhGoto(c, PhIdle)
Reads(c, op) == [phCall[c] EXCEPT !.op = op, !.at = "get"]
Writes(call, receipt) == [call EXCEPT !.at = "put", !.receipt = receipt]

(* transition: the receipt as it was read, with another status. *)
Transition(receipt, status, fields) ==
    [receipt EXCEPT !.audit = Append(@, status), !.fields = @ \cup fields]

Begins(c) ==
    /\ phCall[c].op = "none" /\ phUsed.calls < phUsed.scenario.calls
    /\ phUsed' = [phUsed EXCEPT !.calls = @ + 1]
    /\ phUsed.scenario.patient => phJournal = <<>> /\ \A d \in PhCallers : phCall[d].op = "none"

Submitted(c, chain) ==
    /\ Begins(c)
    /\ \E content \in PhContents :
          PhGoto(c, [PhIdle EXCEPT !.op = "receive", !.at = "list", !.chain = chain, !.receipt = NewReceipt(content)])
    /\ UNCHANGED <<phStore, phJournal, phApplied>>

Called(c, op) ==
    /\ Begins(c)
    /\ \E id \in 1..phUsed.ids : PhGoto(c, [PhIdle EXCEPT !.op = op, !.at = "get", !.id = id])
    /\ UNCHANGED <<phStore, phJournal, phApplied>>

-----------------------------------------------------------------------------
(* What follows in submit once a receipt is received. *)
AfterReceive(c, id, receipt) ==
    LET call == [phCall[c] EXCEPT !.id = id, !.receipt = receipt]
    IN  IF ~call.chain THEN PhIdle
        ELSE IF receipt.actor = "unknown" THEN Writes([call EXCEPT !.op = "actor"], [receipt EXCEPT !.actor = "agent"])
        ELSE [call EXCEPT !.op = "authorize", !.at = "get"]

(* receive: a receipt of the proposal is returned, if it says the same. *)
Receive(c) ==
    /\ phCall[c].at = "list"
    /\ IF DOMAIN phStore = {}
       THEN /\ phUsed.ids < MaxReceipts
            /\ phUsed' = [phUsed EXCEPT !.ids = @ + 1]
            /\ PhGoto(c, Writes([phCall[c] EXCEPT !.id = phUsed.ids + 1], phCall[c].receipt))
       ELSE /\ \E id \in DOMAIN phStore :
                  PhGoto(c, IF phStore[id].content = phCall[c].receipt.content
                            THEN AfterReceive(c, id, phStore[id]) ELSE PhIdle)
            /\ UNCHANGED phUsed
    /\ UNCHANGED <<phStore, phJournal, phApplied>>

(* submit looks at what authorize and admit return. *)
AfterAuthorize(c, receipt) ==
    IF phCall[c].chain /\ Status(receipt) = "authorized" THEN Reads(c, "admit") ELSE PhIdle
AfterAdmit(c, receipt) ==
    IF phCall[c].chain /\ Status(receipt) = "admitted" /\ "automatic" \in receipt.fields
    THEN Reads(c, "apply") ELSE PhIdle

\* A target that cannot be inspected throws, a policy without a decision denies.
Authorization(c, receipt) ==
    IF Status(receipt) # "received" THEN {AfterAuthorize(c, receipt)}
    ELSE {PhIdle, Writes(phCall[c], Transition(receipt, "authorized", {"authorization"})),
          Writes(phCall[c], Transition(receipt, "rejected", {"failure"}))}

Admit(c, receipt) ==
    IF Status(receipt) # "authorized" THEN {AfterAdmit(c, receipt)}
    ELSE {PhIdle, Writes(phCall[c], Transition(receipt, "rejected", {"failure"}))}
         \cup {Writes(phCall[c], Transition(receipt, "admitted", {"admission"} \cup disposition)) :
                  disposition \in {{"automatic"}, {}}}

Apply(c, receipt) ==
    CASE Status(receipt) = "admitted" -> {Writes(phCall[c], Transition(receipt, "applying", {}))}
      [] Status(receipt) = "applying" -> {[phCall[c] EXCEPT !.at = "authority", !.receipt = receipt]}
      [] OTHER -> {PhIdle}

Reject(c, receipt) ==
    IF Status(receipt) \in FinalStatuses THEN {PhIdle}
    ELSE {Writes(phCall[c], Transition(receipt, "rejected", {"failure"}))}

(* requireReceipt, and what the operation makes of it. *)
PhGet(c) ==
    /\ phCall[c].at = "get"
    /\ IF phCall[c].id \notin DOMAIN phStore THEN PhReturn(c)
       ELSE LET receipt == phStore[phCall[c].id]
                next == CASE phCall[c].op = "authorize" -> Authorization(c, receipt)
                          [] phCall[c].op = "admit" -> Admit(c, receipt)
                          [] phCall[c].op = "apply" -> Apply(c, receipt)
                          [] phCall[c].op = "reject" -> Reject(c, receipt)
            IN  \E call \in next : PhGoto(c, call)
    /\ UNCHANGED <<phStore, phJournal, phApplied, phUsed>>

(* What a call does once its receipt is written. *)
Written(c) ==
    LET call == phCall[c]
        applying == [call EXCEPT !.at = "authority"]
    IN  CASE call.op = "receive" -> AfterReceive(c, call.id, call.receipt)
          [] call.op = "actor" -> Reads(c, "authorize")
          [] call.op = "authorize" -> AfterAuthorize(c, call.receipt)
          [] call.op = "admit" -> AfterAdmit(c, call.receipt)
          [] call.op = "apply" -> IF Status(call.receipt) = "applying" THEN applying ELSE PhIdle
          [] call.op = "reject" -> PhIdle

Stored(id, receipt, store) == [i \in DOMAIN store \cup {id} |-> IF i = id THEN receipt ELSE store[i]]

\* create and update of the store in memory, or the append of the durable one.
PhPut(c) ==
    /\ phCall[c].at = "put"
    /\ IF phUsed.scenario.durable
       THEN /\ phJournal' = Append(phJournal, [id |-> phCall[c].id, receipt |-> phCall[c].receipt])
            /\ PhGoto(c, [phCall[c] EXCEPT !.at = "engine"])
            /\ UNCHANGED phStore
       ELSE /\ phStore' = Stored(phCall[c].id, phCall[c].receipt, phStore)
            /\ PhGoto(c, Written(c))
            /\ UNCHANGED phJournal
    /\ UNCHANGED <<phApplied, phUsed>>

\* Of several entries about a receipt the last one stays.
Committed(n) ==
    LET of(id) == {i \in 1..n : phJournal[i].id = id}
    IN  [id \in DOMAIN phStore \cup {phJournal[i].id : i \in 1..n} |->
            IF of(id) = {} THEN phStore[id] ELSE phJournal[Max(of(id))].receipt]
Commits(n) ==
    /\ phStore' = Committed(n)
    /\ phJournal' = SubSeq(phJournal, n + 1, Len(phJournal))

(* The engine commits, or finds that another run committed everything. *)
EngineRuns(c) ==
    /\ phCall[c].at = "engine"
    /\ Commits(Len(phJournal))
    /\ PhGoto(c, Written(c))
    /\ UNCHANGED <<phApplied, phUsed>>

(* The engine of another host commits what it read. *)
OtherEngine ==
    /\ phJournal # <<>>
    /\ \E n \in 1..Len(phJournal) : Commits(n)
    /\ UNCHANGED <<phCall, phApplied, phUsed>>

(* The authority is idempotent by receipt id; it may throw after it applied. *)
AuthorityApplies(c) ==
    /\ phCall[c].at = "authority"
    /\ \E status \in {"applied", "failed"}, done \in BOOLEAN :
          /\ status = "applied" => done
          /\ phApplied' = IF done THEN Stored(phCall[c].id, phCall[c].receipt.content, phApplied) ELSE phApplied
          /\ PhGoto(c, Writes(phCall[c], Transition(phCall[c].receipt, status,
                                                    IF status = "applied" THEN {"application"} ELSE {"failure"})))
    /\ UNCHANGED <<phStore, phJournal, phUsed>>

(* The host vanishes, the runtime throws, or its engine is busy in another
   host: the call rejects, and what it appended stays. *)
Interrupted(c) ==
    /\ phUsed.scenario.durable /\ phCall[c].op # "none"
    /\ phUsed.troubles < phUsed.scenario.troubles
    /\ phUsed' = [phUsed EXCEPT !.troubles = @ + 1]
    /\ PhReturn(c)
    /\ UNCHANGED <<phStore, phJournal, phApplied>>

PhNext ==
    \/ \E c \in PhCallers :
          \/ \E chain \in BOOLEAN : Submitted(c, chain)
          \/ \E op \in {"authorize", "admit", "apply", "reject"} : Called(c, op)
          \/ Receive(c) \/ PhGet(c) \/ PhPut(c) \/ EngineRuns(c) \/ AuthorityApplies(c) \/ Interrupted(c)
    \/ OtherEngine

PhSpec == PhInit /\ [][PhNext]_phVars

-----------------------------------------------------------------------------
(* The status model that the host is to keep (blueprint-agent-host.yaml:79-84). *)
StatusModel(before, after) ==
    \/ <<before, after>> \in {<<"received", "authorized">>, <<"authorized", "admitted">>,
                               <<"admitted", "applying">>, <<"applying", "applied">>, <<"applying", "failed">>}
    \/ before \in {"received", "authorized", "admitted"} /\ after = "rejected"

(* reject() knows no other bar than a final status: it also ends a receipt
   whose apply was interrupted, or is still under way. *)
Follows(before, after) == StatusModel(before, after) \/ <<before, after>> = <<"applying", "rejected">>

(* However calls overwrite each other's receipts, each receipt tells one course
   of its proposal, with the decisions that course took: it is written back
   whole.  The course is that of the status model, or ends by a rejection in
   the middle of an apply (host.ts:147). *)
TellsOneCourse(receipt) ==
    LET audit == receipt.audit
    IN  /\ audit[1] = "received"
        /\ \A i \in 1..(Len(audit) - 1) : Follows(audit[i], audit[i + 1])
        /\ "authorization" \in receipt.fields <=> Contains(audit, "authorized")
        /\ "admission" \in receipt.fields <=> Contains(audit, "admitted")
        /\ "application" \in receipt.fields <=> Contains(audit, "applied")
ReceiptsTellOneCourse ==
    /\ \A id \in DOMAIN phStore : TellsOneCourse(phStore[id])
    /\ \A i \in DOMAIN phJournal : TellsOneCourse(phJournal[i].receipt)

(* The authority applied what a receipt calls applied, and only what was
   proposed under it. *)
AppliedIsDone ==
    \A id \in DOMAIN phStore :
        /\ Status(phStore[id]) = "applied" => id \in DOMAIN phApplied
        /\ id \in DOMAIN phApplied => phApplied[id] = phStore[id].content

(* Callers that wait for one another, and for what an interrupted call left in
   the journal, have one receipt per proposal, and nothing is applied of which
   the receipt does not tell. *)
NothingUnrecorded ==
    phUsed.scenario.patient =>
        /\ Cardinality(DOMAIN phStore) <= 1
        /\ \A id \in DOMAIN phApplied : Contains(phStore[id].audit, "applying")

(* What blueprint-agent-host.yaml:83 says, and reject() does not keep: every
   receipt follows the status model, the denial flow leaves received, authorized
   and admitted only. *)
DenialLeavesApplyAlone ==
    \A id \in DOMAIN phStore :
        LET audit == phStore[id].audit
        IN  \A i \in 1..(Len(audit) - 1) : StatusModel(audit[i], audit[i + 1])

ProposalsSafe == ReceiptsTellOneCourse /\ AppliedIsDone /\ NothingUnrecorded

(* Nothing is applied without an admission, and between patient callers no
   step takes back what a receipt tells: a final status stays. *)
HistoryKept ==
    /\ DOMAIN phApplied' # DOMAIN phApplied =>
          \E c \in PhCallers : phCall[c].at = "authority" /\ "admission" \in phCall[c].receipt.fields
    /\ phUsed.scenario.patient =>
          \A id \in DOMAIN phStore : IsPrefix(phStore[id].audit, phStore'[id].audit)
=============================================================================
