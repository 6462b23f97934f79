----------------------------- MODULE ProvidersProofs -----------------------------
(***************************************************************************)
(* Proofs about the shared providers, for any number of clients, messages, *)
(* entries and faults.                                                     *)
(*                                                                         *)
(* The directory's part is in FilesystemProofs.  The Cosmos documents are  *)
(* guarded by etags only, and the argument is always the same: what a      *)
(* client concluded from a document it read still holds while the document *)
(* is one nobody has written since, and a batch is applied only then.      *)
(***************************************************************************)
EXTENDS MCProviders, FilesystemProofs

LibStates == {"none", "staged", "active", "leased", "done", "dead"}
Replacing == {"lease", "revive", "ack", "nack", "bury", "promote", "discard"}
CallNames == Replacing \cup {"none", "counter", "create", "acquire"}
LibRecords == [state : LibStates, sequence : Nat, dedupKey : Keys \cup {NoKey},
               token : LibClients \cup {NoKey}]

CallRecords == [name : CallNames, message : 0..MaxLibMessages,
                key : Keys \cup {NoKey}, count : Nat]

LibTypeOK ==
    /\ counter \in Nat
    /\ messages \in [LibMessages -> LibRecords]
    /\ dedup \subseteq Keys
    /\ seen \in [LibClients -> SUBSET (0..RelayDoc)]
    /\ call \in [LibClients -> CallRecords]
    /\ relay \in [holder : LibClients \cup {NoKey}, over : BOOLEAN]

(***************************************************************************)
(* What a client read and nobody has written since is still so: the        *)
(* counter it will add one to, the message it will replace, the tenure of  *)
(* the lock it will take.                                                  *)
(***************************************************************************)
CallHolds(c) ==
    /\ call[c].name \in {"create", "promote"} /\ CounterDoc \in seen[c] =>
           call[c].count = counter
    /\ call[c].message # 0 => call[c].name \in Replacing
    /\ call[c].message # 0 /\ call[c].message \in seen[c] => Live(call[c].message)
    /\ call[c].name = "acquire" /\ RelayDoc \in seen[c] => relay.over

CallsHold == \A c \in LibClients : CallHolds(c)

KeyHeldBy(m, k) == Live(m) /\ messages[m].dedupKey = k

KeysHeld == \A k \in Keys : k \in dedup <=> (\E m \in LibMessages : KeyHeldBy(m, k))

OneHolder ==
    \A k \in Keys : \A m, n \in LibMessages : KeyHeldBy(m, k) /\ KeyHeldBy(n, k) => m = n

SequencesBehind == \A m \in Created : messages[m].sequence <= counter

LibInvariant ==
    LibTypeOK /\ CallsHold /\ KeysHeld /\ OneHolder /\ SequencesBehind /\ SequencesDiffer

LEMMA DocumentsApart ==
    /\ CounterDoc \notin LibMessages /\ RelayDoc \notin LibMessages
    /\ CounterDoc # RelayDoc /\ 0 \notin LibMessages
    /\ LibMessages \subseteq 0..RelayDoc /\ CounterDoc \in 0..RelayDoc
    /\ RelayDoc \in 0..RelayDoc /\ LibMessages \subseteq 0..MaxLibMessages
BY LibraryBounds DEF CounterDoc, RelayDoc, LibMessages

\* The invariant of the library holds at first.
LEMMA LibInitial == LibInit => LibInvariant
<1> SUFFICES ASSUME LibInit PROVE LibInvariant
  OBVIOUS
<1> USE DEF LibInit
<1>1. LibTypeOK
  BY LibraryBounds DEF LibTypeOK, NoMessage, LibRecords, LibStates, NoCall, CallNames, CallRecords, RelayDoc
<1>2. CallsHold
  BY DEF CallsHold, CallHolds, NoCall
<1>3. Created = {} /\ \A m \in LibMessages : ~Live(m)
  BY DEF Created, Live, NoMessage
<1> QED
  BY <1>1, <1>2, <1>3 DEF LibInvariant, KeysHeld, KeyHeldBy, OneHolder, SequencesBehind,
                          SequencesDiffer

\* A step that leaves messages, counter and dedup documents alone, and of the
\* calls changes only those it shows to hold.
LEMMA LibCallStep ==
    ASSUME LibInvariant, UNCHANGED <<counter, messages, dedup>>, LibTypeOK',
           \A c \in LibClients : CallHolds(c)'
    PROVE  LibInvariant'
BY DEF LibInvariant, CallsHold, KeysHeld, KeyHeldBy, Live, OneHolder, SequencesBehind,
       SequencesDiffer, Created

\* Calls that are not the step's own, when the step only reads.
LEMMA LibOthersHold ==
    ASSUME LibInvariant, NEW c \in LibClients, UNCHANGED <<counter, messages, relay>>,
           call'[c] = call[c], seen'[c] \subseteq seen[c]
    PROVE  CallHolds(c)'
BY DEF LibInvariant, CallsHold, CallHolds, Live

\* What the calls are after one of them changed.
LEMMA CallChanges ==
    ASSUME LibTypeOK, NEW c \in LibClients, NEW d \in CallRecords,
           call' = [call EXCEPT ![c] = d]
    PROVE  /\ call' \in [LibClients -> CallRecords]
           /\ call'[c] = d
           /\ \A b \in LibClients \ {c} : call'[b] = call[b]
BY DEF LibTypeOK

CallRecord(name, m, k) ==
    [name |-> name, message |-> m, key |-> k,
     count |-> IF name \in {"create", "promote"} THEN counter ELSE 0]

LEMMA CallRecordType ==
    ASSUME LibTypeOK, NEW name \in CallNames, NEW m \in 0..MaxLibMessages,
           NEW k \in Keys \cup {NoKey}
    PROVE  /\ CallRecord(name, m, k) \in CallRecords
           /\ CallRecord(name, m, k).name = name
           /\ CallRecord(name, m, k).message = m
           /\ name \in {"create", "promote"} => CallRecord(name, m, k).count = counter
BY DEF LibTypeOK, CallRecord, CallRecords

LEMMA DocumentsRead ==
    ASSUME LibTypeOK, NEW c \in LibClients, NEW docs \in SUBSET (0..RelayDoc),
           seen' = [seen EXCEPT ![c] = @ \cup docs]
    PROVE  /\ seen' \in [LibClients -> SUBSET (0..RelayDoc)]
           /\ \A b \in LibClients \ {c} : seen'[b] = seen[b]
BY DEF LibTypeOK

LEMMA DocumentsWritten ==
    ASSUME LibTypeOK, NEW docs, seen' = [c \in LibClients |-> seen[c] \ docs]
    PROVE  /\ seen' \in [LibClients -> SUBSET (0..RelayDoc)]
           /\ \A b \in LibClients : seen'[b] = seen[b] \ docs
BY DEF LibTypeOK

\* A call that is over concludes nothing.
LEMMA DoneHolds ==
    ASSUME LibTypeOK, NEW c \in LibClients, Done(c)
    PROVE  /\ call' \in [LibClients -> CallRecords]
           /\ CallHolds(c)'
           /\ \A b \in LibClients \ {c} : call'[b] = call[b]
<1>1. NoCall \in CallRecords
  BY LibraryBounds DEF NoCall, CallRecords, CallNames
<1>2. call' = [call EXCEPT ![c] = NoCall]
  BY DEF Done
<1>3. /\ call' \in [LibClients -> CallRecords]
      /\ call'[c] = NoCall
      /\ \A b \in LibClients \ {c} : call'[b] = call[b]
  BY <1>1, <1>2, CallChanges
<1>4. NoCall.name = "none" /\ NoCall.message = 0
  BY DEF NoCall
<1> QED
  BY <1>3, <1>4 DEF CallHolds

\* enqueue begins; it has read nothing yet.
LEMMA EnqueueKeeps ==
    ASSUME LibInvariant, NEW c \in LibClients, LibEnqueue(c) PROVE LibInvariant'
<1> USE DEF LibInvariant
<1>1. PICK k \in Keys \cup {NoKey} : call' = [call EXCEPT ![c] = CallRecord("counter", 0, k)]
  BY DEF LibEnqueue, Calls, CallRecord
<1>2. "counter" \in CallNames /\ 0 \in 0..MaxLibMessages
  BY LibraryBounds DEF CallNames
<1> DEFINE d == CallRecord("counter", 0, k)
<1>3. d \in CallRecords /\ d.name = "counter" /\ d.message = 0
  BY <1>2, CallRecordType
<1>4. call' = [call EXCEPT ![c] = d]
  BY <1>1
<1> HIDE DEF d
<1>5. /\ call' \in [LibClients -> CallRecords]
      /\ call'[c].name = "counter" /\ call'[c].message = 0
      /\ \A b \in LibClients \ {c} : call'[b] = call[b]
  BY <1>3, <1>4, CallChanges
<1>6. LibTypeOK'
  BY <1>5 DEF LibTypeOK, LibEnqueue
<1>7. CallHolds(c)'
  BY <1>5 DEF CallHolds
<1>8. \A b \in LibClients \ {c} : CallHolds(b)'
  BY <1>5, LibOthersHold DEF LibEnqueue
<1> QED
  BY <1>6, <1>7, <1>8, LibCallStep DEF LibEnqueue

\* The counter is read.
LEMMA ReadCounterKeeps ==
    ASSUME LibInvariant, NEW c \in LibClients, LibReadCounter(c) PROVE LibInvariant'
<1> USE DEF LibInvariant
<1> DEFINE d == CallRecord("create", 0, call[c].key)
<1>1. call[c].key \in Keys \cup {NoKey}
  BY DEF LibTypeOK, CallRecords
<1>2. "create" \in CallNames /\ 0 \in 0..MaxLibMessages
  BY LibraryBounds DEF CallNames
<1>3. d \in CallRecords /\ d.name = "create" /\ d.message = 0 /\ d.count = counter
  BY <1>1, <1>2, CallRecordType
<1>4. call' = [call EXCEPT ![c] = d]
  BY DEF LibReadCounter, Calls, CallRecord
<1> HIDE DEF d
<1>5. /\ call' \in [LibClients -> CallRecords]
      /\ call'[c].name = "create" /\ call'[c].message = 0 /\ call'[c].count = counter
      /\ \A b \in LibClients \ {c} : call'[b] = call[b]
  BY <1>3, <1>4, CallChanges
<1>6. {CounterDoc} \in SUBSET (0..RelayDoc)
  BY DocumentsApart
<1>7. /\ seen' \in [LibClients -> SUBSET (0..RelayDoc)]
      /\ \A b \in LibClients \ {c} : seen'[b] = seen[b]
  BY <1>6, DocumentsRead DEF LibReadCounter, See
<1>8. LibTypeOK'
  BY <1>5, <1>7 DEF LibTypeOK, LibReadCounter
<1>9. CallHolds(c)'
  BY <1>5 DEF CallHolds, LibReadCounter
<1>10. \A b \in LibClients \ {c} : CallHolds(b)'
  BY <1>5, <1>7, LibOthersHold DEF LibReadCounter
<1> QED
  BY <1>8, <1>9, <1>10, LibCallStep DEF LibReadCounter

LEMMA ReadKeeps ==
    ASSUME LibInvariant, NEW c \in LibClients, LibRead(c) PROVE LibInvariant'
<1> USE DEF LibInvariant
<1>1. PICK name \in Replacing, m \in Created :
        /\ Admits(c, name, m)
        /\ call' = [call EXCEPT ![c] = CallRecord(name, m, NoKey)]
        /\ seen' = [seen EXCEPT ![c] = @ \cup
                       ({m} \cup IF name = "promote" THEN {CounterDoc} ELSE {})]
  BY DEF LibRead, Replacing, Calls, CallRecord, See
<1>2. name \in CallNames /\ m \in LibMessages /\ m \in 0..MaxLibMessages
  BY DocumentsApart DEF CallNames, Created
<1> DEFINE docs == {m} \cup IF name = "promote" THEN {CounterDoc} ELSE {}
           d == CallRecord(name, m, NoKey)
<1>3. docs \in SUBSET (0..RelayDoc)
  BY <1>2, DocumentsApart
<1>4. Live(m)
  BY <1>1 DEF Admits, Live, Replacing
<1>5. /\ d \in CallRecords /\ d.name = name /\ d.message = m
      /\ name = "promote" => d.count = counter
  BY <1>2, CallRecordType
<1>6. call' = [call EXCEPT ![c] = d] /\ seen' = [seen EXCEPT ![c] = @ \cup docs]
  BY <1>1
<1> HIDE DEF d, docs
<1>7. /\ call' \in [LibClients -> CallRecords]
      /\ call'[c] = d
      /\ \A b \in LibClients \ {c} : call'[b] = call[b]
  BY <1>5, <1>6, CallChanges
<1>8. /\ seen' \in [LibClients -> SUBSET (0..RelayDoc)]
      /\ \A b \in LibClients \ {c} : seen'[b] = seen[b]
  BY <1>3, <1>6, DocumentsRead
<1>9. LibTypeOK'
  BY <1>7, <1>8 DEF LibTypeOK, LibRead
<1>10. CallHolds(c)'
  BY <1>4, <1>5, <1>7 DEF CallHolds, LibRead, Replacing, Live
<1>11. \A b \in LibClients \ {c} : CallHolds(b)'
  BY <1>7, <1>8, LibOthersHold DEF LibRead
<1> QED
  BY <1>9, <1>10, <1>11, LibCallStep DEF LibRead

\* A message is created where none was, with the next sequence and a free key.
LEMMA CreateKeeps ==
    ASSUME LibInvariant, NEW c \in LibClients, LibCreate(c) PROVE LibInvariant'
<1> USE DEF LibInvariant
<1> DEFINE k == call[c].key
<1>1. k \in Keys \cup {NoKey} /\ call[c].count \in Nat /\ call[c].name = "create"
  BY DEF LibTypeOK, CallRecords, LibCreate
<1>2. CASE Current(c, {CounterDoc}) /\ k \notin dedup
  <2>1. PICK m \in LibMessages : m \notin Created /\ m = CHOOSE n \in LibMessages : n \notin Created
    <3>1. \E n \in LibMessages : n \notin Created
      BY DEF LibCreate, Created
    <3> QED
      BY <3>1
  <2>2. call[c].count = counter
    BY <1>1, <1>2 DEF CallsHold, CallHolds, Current
  <2>3. PICK state \in {"active", "staged"} :
          messages' = [messages EXCEPT ![m] = [state |-> state, sequence |-> counter + 1,
                                               dedupKey |-> k, token |-> NoKey]]
    BY <1>2, <2>1, <2>2 DEF LibCreate
  <2>4. counter' = counter + 1 /\ dedup' = dedup \cup ({k} \ {NoKey}) /\ UNCHANGED relay
    BY <1>2, <2>2 DEF LibCreate, DedupDocument
  <2>5. /\ call' \in [LibClients -> CallRecords]
        /\ CallHolds(c)'
        /\ \A b \in LibClients \ {c} : call'[b] = call[b]
    BY <1>2, DoneHolds DEF LibCreate
  <2>6. /\ seen' \in [LibClients -> SUBSET (0..RelayDoc)]
        /\ \A b \in LibClients : seen'[b] = seen[b] \ {CounterDoc}
    BY <1>2, DocumentsWritten DEF LibCreate, Write
  <2>7. /\ messages'[m].state \in {"active", "staged"}
        /\ messages'[m].sequence = counter + 1 /\ messages'[m].dedupKey = k
        /\ \A n \in LibMessages \ {m} : messages'[n] = messages[n]
        /\ messages' \in [LibMessages -> LibRecords]
    <3>1. [state |-> state, sequence |-> counter + 1, dedupKey |-> k, token |-> NoKey]
              \in LibRecords
      BY <1>1 DEF LibTypeOK, LibRecords, LibStates
    <3> QED
      BY <2>1, <2>3, <3>1 DEF LibTypeOK
  <2>8. LibTypeOK'
    BY <1>1, <2>4, <2>5, <2>6, <2>7 DEF LibTypeOK
  <2>9. ~Live(m) /\ Live(m)' /\ (\A n \in LibMessages \ {m} : Live(n)' <=> Live(n))
    BY <2>1, <2>7 DEF Live, Created
  <2>10. \A b \in LibClients \ {c} : CallHolds(b)'
    <3>1. SUFFICES ASSUME NEW b \in LibClients \ {c} PROVE CallHolds(b)'
      OBVIOUS
    <3>2. CallHolds(b) /\ call'[b] = call[b] /\ CounterDoc \notin seen'[b] /\ seen'[b] \subseteq seen[b]
      BY <2>5, <2>6 DEF CallsHold
    <3>3. call[b].message # 0 => call[b].message \in LibMessages
      BY DEF LibTypeOK, CallRecords, LibMessages
    <3>4. call[b].message # 0 /\ call[b].message \in seen'[b] => Live(call[b].message)'
      BY <2>9, <3>2, <3>3 DEF CallHolds
    <3> QED
      BY <2>4, <3>2, <3>4 DEF CallHolds, Live
  <2>11. CallsHold'
    BY <2>5, <2>10 DEF CallsHold
  <2>12. \A n \in LibMessages, j \in Keys :
            KeyHeldBy(n, j)' <=> (n = m /\ j = k) \/ KeyHeldBy(n, j)
    <3>1. SUFFICES ASSUME NEW n \in LibMessages, NEW j \in Keys
                   PROVE  KeyHeldBy(n, j)' <=> (n = m /\ j = k) \/ KeyHeldBy(n, j)
      OBVIOUS
    <3>2. CASE n = m
      BY <2>7, <2>9, <3>2 DEF KeyHeldBy
    <3>3. CASE n # m
      BY <2>7, <2>9, <3>3 DEF KeyHeldBy
    <3> QED
      BY <3>2, <3>3
  <2>13. k \in Keys => \A n \in LibMessages : ~KeyHeldBy(n, k)
    BY <1>2 DEF KeysHeld
  <2>14. KeysHeld'
    <3>1. SUFFICES ASSUME NEW j \in Keys
                   PROVE  j \in dedup' <=> \E n \in LibMessages : KeyHeldBy(n, j)'
      BY DEF KeysHeld
    <3>2. j \in dedup' <=> j = k \/ j \in dedup
      BY <2>4, NoKeyIsNone
    <3> QED
      BY <2>1, <2>12, <3>2 DEF KeysHeld
  <2>15. OneHolder'
    BY <2>12, <2>13 DEF OneHolder
  <2>16. Created' = Created \cup {m}
    BY <2>1, <2>7, ZenonT(40) DEF Created
  <2>17. \A n \in Created : messages'[n] = messages[n] /\ messages'[n].sequence <= counter
    BY <2>1, <2>7 DEF Created, SequencesBehind
  <2>18. \A n \in LibMessages : messages'[n].sequence \in Nat /\ counter \in Nat
    BY <2>7 DEF LibRecords, LibTypeOK
  <2>19. SequencesBehind'
    BY <2>4, <2>7, <2>16, <2>17, <2>18 DEF SequencesBehind, Created
  <2>20. SequencesDiffer'
    <3>1. SUFFICES ASSUME NEW i \in Created', NEW j \in Created', i # j
                   PROVE  messages'[i].sequence # messages'[j].sequence
      BY DEF SequencesDiffer
    <3>2. i \in LibMessages /\ j \in LibMessages
      BY DEF Created
    <3>3. CASE i \in Created /\ j \in Created
      BY <2>17, <3>1, <3>3 DEF SequencesDiffer
    <3>4. CASE i = m \/ j = m
      BY <2>7, <2>16, <2>17, <2>18, <3>1, <3>2, <3>4
    <3> QED
      BY <2>16, <3>3, <3>4
  <2> QED
    BY <2>8, <2>11, <2>14, <2>15, <2>19, <2>20
<1>3. CASE ~(Current(c, {CounterDoc}) /\ k \notin dedup)
  <2>1. UNCHANGED <<counter, messages, dedup, seen, relay>>
    BY <1>3 DEF LibCreate
  <2>2. /\ call' \in [LibClients -> CallRecords]
        /\ CallHolds(c)'
        /\ \A b \in LibClients \ {c} : call'[b] = call[b]
    <3>1. CASE k \in dedup
      BY <1>3, <3>1, DoneHolds DEF LibCreate
    <3>2. CASE k \notin dedup
      <4> DEFINE d == CallRecord("counter", 0, k)
      <4>1. "counter" \in CallNames /\ 0 \in 0..MaxLibMessages
        BY LibraryBounds DEF CallNames
      <4>2. d \in CallRecords /\ d.name = "counter" /\ d.message = 0
        BY <1>1, <4>1, CallRecordType
      <4>3. call' = [call EXCEPT ![c] = d]
        BY <1>3, <3>2 DEF LibCreate, Calls, CallRecord
      <4> HIDE DEF d
      <4>4. /\ call' \in [LibClients -> CallRecords]
            /\ call'[c].name = "counter" /\ call'[c].message = 0
            /\ \A b \in LibClients \ {c} : call'[b] = call[b]
        BY <4>2, <4>3, CallChanges
      <4> QED
        BY <4>4 DEF CallHolds
    <3> QED
      BY <3>1, <3>2
  <2>3. LibTypeOK'
    BY <2>1, <2>2 DEF LibTypeOK
  <2>4. \A b \in LibClients \ {c} : CallHolds(b)'
    BY <2>1, <2>2, LibOthersHold
  <2> QED
    BY <2>1, <2>2, <2>3, <2>4, LibCallStep
<1> QED
  BY <1>2, <1>3

\* What a replacement does, if its etag still matches.
LEMMA ReplaceTakes ==
    ASSUME LibInvariant, NEW c \in LibClients, LibReplace(c),
           NEW m, m = call[c].message, NEW name, name = call[c].name,
           NEW docs, docs = {m} \cup IF name = "promote" THEN {CounterDoc} ELSE {},
           Current(c, docs)
    PROVE  /\ m \in LibMessages /\ name \in Replacing /\ Live(m)
           /\ counter' = IF name = "promote" THEN counter + 1 ELSE counter
           /\ messages' \in [LibMessages -> LibRecords]
           /\ messages'[m].state = NextState(name)
           /\ messages'[m].dedupKey = messages[m].dedupKey
           /\ messages'[m].sequence = IF name = "promote" THEN counter + 1
                                                          ELSE messages[m].sequence
           /\ \A n \in LibMessages \ {m} : messages'[n] = messages[n]
           /\ dedup' = IF Finishing(name) THEN dedup \ {messages[m].dedupKey} ELSE dedup
           /\ \A b \in LibClients : seen'[b] = seen[b] \ docs
           /\ seen' \in [LibClients -> SUBSET (0..RelayDoc)]
<1> USE DEF LibInvariant
<1>1. m \in LibMessages /\ name \in Replacing
  BY DEF LibReplace, LibTypeOK, CallRecords, LibMessages, CallsHold, CallHolds
<1>2. Live(m) /\ (name = "promote" => call[c].count = counter)
  BY <1>1 DEF CallsHold, CallHolds, Current, LibReplace
<1>3. /\ counter' = IF name = "promote" THEN counter + 1 ELSE counter
      /\ messages' = [messages EXCEPT ![m].state = NextState(name),
                          ![m].token = IF name = "lease" THEN c ELSE NoKey,
                          ![m].sequence = IF name = "promote" THEN counter + 1 ELSE @]
      /\ dedup' = IF Finishing(name) THEN dedup \ {messages[m].dedupKey} ELSE dedup
      /\ seen' = [b \in LibClients |-> seen[b] \ docs]
  BY <1>2 DEF LibReplace, Write
<1>4. NextState(name) \in LibStates
  BY <1>1 DEF NextState, Replacing, LibStates
<1>5. messages[m] \in LibRecords /\ counter \in Nat
  BY <1>1 DEF LibTypeOK
<1>6. /\ messages'[m] = [state |-> NextState(name),
                         sequence |-> IF name = "promote" THEN counter + 1
                                                          ELSE messages[m].sequence,
                         dedupKey |-> messages[m].dedupKey,
                         token |-> IF name = "lease" THEN c ELSE NoKey]
      /\ \A n \in LibMessages \ {m} : messages'[n] = messages[n]
      /\ DOMAIN messages' = LibMessages
      /\ messages' = [n \in LibMessages |-> messages'[n]]
  BY <1>1, <1>3, <1>5 DEF LibTypeOK, LibRecords
<1>7. messages'[m] \in LibRecords
  BY <1>4, <1>5, <1>6 DEF LibRecords
<1>8. messages' \in [LibMessages -> LibRecords]
  BY <1>6, <1>7 DEF LibTypeOK
<1>9. /\ \A b \in LibClients : seen'[b] = seen[b] \ docs
      /\ seen' \in [LibClients -> SUBSET (0..RelayDoc)]
  BY <1>3 DEF LibTypeOK
<1>10. /\ messages'[m].state = NextState(name)
       /\ messages'[m].dedupKey = messages[m].dedupKey
       /\ messages'[m].sequence = IF name = "promote" THEN counter + 1
                                                      ELSE messages[m].sequence
  BY <1>6
<1> QED
  BY <1>1, <1>2, <1>3, <1>6, <1>8, <1>9, <1>10

\* A replaced message keeps its place and its key, or gives the key up.
LEMMA ReplaceKeeps ==
    ASSUME LibInvariant, NEW c \in LibClients, LibReplace(c) PROVE LibInvariant'
<1> USE DEF LibInvariant
<1>1. PICK m : m = call[c].message
  OBVIOUS
<1>2. PICK name : name = call[c].name
  OBVIOUS
<1>3. PICK docs : docs = {m} \cup IF name = "promote" THEN {CounterDoc} ELSE {}
  OBVIOUS
<1>4. /\ call' \in [LibClients -> CallRecords]
      /\ CallHolds(c)'
      /\ \A b \in LibClients \ {c} : call'[b] = call[b]
  BY DoneHolds DEF LibReplace
<1>5. CASE Current(c, docs)
  <2>1. /\ m \in LibMessages /\ name \in Replacing /\ Live(m)
        /\ counter' = IF name = "promote" THEN counter + 1 ELSE counter
        /\ messages' \in [LibMessages -> LibRecords]
        /\ messages'[m].state = NextState(name)
        /\ messages'[m].dedupKey = messages[m].dedupKey
        /\ messages'[m].sequence = IF name = "promote" THEN counter + 1
                                                       ELSE messages[m].sequence
        /\ \A n \in LibMessages \ {m} : messages'[n] = messages[n]
        /\ dedup' = IF Finishing(name) THEN dedup \ {messages[m].dedupKey} ELSE dedup
        /\ \A b \in LibClients : seen'[b] = seen[b] \ docs
        /\ seen' \in [LibClients -> SUBSET (0..RelayDoc)]
    BY <1>1, <1>2, <1>3, <1>5, ReplaceTakes
  <2>2. LibTypeOK'
    BY <1>4, <2>1 DEF LibTypeOK, LibReplace
  <2>3. (Live(m)' <=> ~Finishing(name)) /\ (\A n \in LibMessages \ {m} : Live(n)' <=> Live(n))
    BY <2>1 DEF Live, NextState, Finishing, Replacing
  <2>4. \A b \in LibClients \ {c} : CallHolds(b)'
    <3>1. SUFFICES ASSUME NEW b \in LibClients \ {c} PROVE CallHolds(b)'
      OBVIOUS
    <3>2. CallHolds(b) /\ call'[b] = call[b] /\ m \notin seen'[b] /\ seen'[b] \subseteq seen[b]
      BY <1>3, <1>4, <2>1 DEF CallsHold
    <3>3. call[b].message # 0 => call[b].message \in LibMessages
      BY DEF LibTypeOK, CallRecords, LibMessages
    <3>4. call[b].message # 0 /\ call[b].message \in seen'[b] => Live(call[b].message)'
      BY <2>3, <3>2, <3>3 DEF CallHolds
    <3>5. CounterDoc \in seen'[b] => counter' = counter
      BY <1>3, <2>1
    <3> QED
      BY <3>2, <3>4, <3>5 DEF CallHolds, Live, LibReplace
  <2>5. CallsHold'
    BY <1>4, <2>4 DEF CallsHold
  <2>6. \A n \in LibMessages, j \in Keys :
            KeyHeldBy(n, j)' <=> KeyHeldBy(n, j) /\ ~(n = m /\ Finishing(name))
    BY <2>1, <2>3 DEF KeyHeldBy
  <2>7. KeysHeld'
    <3>1. SUFFICES ASSUME NEW j \in Keys
                   PROVE  j \in dedup' <=> \E n \in LibMessages : KeyHeldBy(n, j)'
      BY DEF KeysHeld
    <3>2. CASE Finishing(name) /\ j = messages[m].dedupKey
      <4>1. KeyHeldBy(m, j) /\ j \notin dedup'
        BY <2>1, <3>2 DEF KeyHeldBy
      <4>2. \A n \in LibMessages : ~KeyHeldBy(n, j)'
        BY <2>1, <2>6, <3>2, <4>1 DEF OneHolder
      <4> QED
        BY <4>1, <4>2
    <3>3. CASE ~(Finishing(name) /\ j = messages[m].dedupKey)
      <4>1. j \in dedup' <=> j \in dedup
        BY <2>1, <3>3
      <4>2. \A n \in LibMessages : KeyHeldBy(n, j)' <=> KeyHeldBy(n, j)
        BY <2>6, <3>3 DEF KeyHeldBy
      <4> QED
        BY <4>1, <4>2 DEF KeysHeld
    <3> QED
      BY <3>2, <3>3
  <2>8. OneHolder'
    BY <2>6 DEF OneHolder
  <2>9. Created' = Created /\ m \in Created
    BY <2>1 DEF Created, NextState, Replacing, Live
  <2>10. \A n \in Created : messages[n].sequence \in Nat /\ counter \in Nat
    BY DEF LibTypeOK, LibRecords, Created
  <2>11. SequencesBehind'
    BY <2>1, <2>9, <2>10 DEF SequencesBehind, Created
  <2>12. SequencesDiffer'
    <3>1. SUFFICES ASSUME NEW i \in Created', NEW j \in Created', i # j
                   PROVE  messages'[i].sequence # messages'[j].sequence
      BY DEF SequencesDiffer
    <3>2. /\ i \in Created /\ j \in Created /\ i \in LibMessages /\ j \in LibMessages
          /\ messages[i].sequence # messages[j].sequence
      BY <2>9, <3>1 DEF SequencesDiffer, Created
    <3>3. CASE name # "promote" \/ (i # m /\ j # m)
      BY <2>1, <3>2, <3>3
    <3>4. CASE name = "promote" /\ (i = m \/ j = m)
      BY <2>1, <2>10, <3>1, <3>2, <3>4 DEF SequencesBehind
    <3> QED
      BY <3>3, <3>4
  <2> QED
    BY <2>2, <2>5, <2>7, <2>8, <2>11, <2>12
<1>6. CASE ~Current(c, docs)
  <2>1. UNCHANGED <<counter, messages, dedup, seen, relay>>
    BY <1>1, <1>2, <1>3, <1>6 DEF LibReplace
  <2>2. LibTypeOK'
    BY <1>4, <2>1 DEF LibTypeOK
  <2>3. \A b \in LibClients \ {c} : CallHolds(b)'
    BY <1>4, <2>1, LibOthersHold
  <2> QED
    BY <1>4, <2>1, <2>2, <2>3, LibCallStep
<1> QED
  BY <1>5, <1>6

\* A lease lapses without a write.
LEMMA LapseKeeps ==
    ASSUME LibInvariant, LibLeaseLapses PROVE LibInvariant'
<1>1. LibTypeOK'
  BY DEF LibLeaseLapses, LibInvariant, LibTypeOK
<1>2. \A c \in LibClients : CallHolds(c)'
  BY LibOthersHold DEF LibLeaseLapses
<1> QED
  BY <1>1, <1>2, LibCallStep DEF LibLeaseLapses

\* The relay lock is read.
LEMMA RelayReadKeeps ==
    ASSUME LibInvariant, NEW c \in LibClients, RelayRead(c) PROVE LibInvariant'
<1> USE DEF LibInvariant
<1> DEFINE d == CallRecord("acquire", 0, NoKey)
<1>1. "acquire" \in CallNames /\ 0 \in 0..MaxLibMessages
  BY LibraryBounds DEF CallNames
<1>2. d \in CallRecords /\ d.name = "acquire" /\ d.message = 0
  BY <1>1, CallRecordType
<1>3. call' = [call EXCEPT ![c] = d]
  BY DEF RelayRead, Calls, CallRecord
<1> HIDE DEF d
<1>4. /\ call' \in [LibClients -> CallRecords]
      /\ call'[c].name = "acquire" /\ call'[c].message = 0
      /\ \A b \in LibClients \ {c} : call'[b] = call[b]
  BY <1>2, <1>3, CallChanges
<1>5. {RelayDoc} \in SUBSET (0..RelayDoc)
  BY DocumentsApart
<1>6. /\ seen' \in [LibClients -> SUBSET (0..RelayDoc)]
      /\ \A b \in LibClients \ {c} : seen'[b] = seen[b]
  BY <1>5, DocumentsRead DEF RelayRead, See
<1>7. LibTypeOK'
  BY <1>4, <1>6 DEF LibTypeOK, RelayRead
<1>8. CallHolds(c)'
  BY <1>4 DEF CallHolds, RelayRead
<1>9. \A b \in LibClients \ {c} : CallHolds(b)'
  BY <1>4, <1>6, LibOthersHold DEF RelayRead
<1> QED
  BY <1>7, <1>8, <1>9, LibCallStep DEF RelayRead

\* It is replaced only as it was read.
LEMMA RelayReplaceKeeps ==
    ASSUME LibInvariant, NEW c \in LibClients, RelayReplace(c) PROVE LibInvariant'
<1> USE DEF LibInvariant
<1>1. /\ call' \in [LibClients -> CallRecords]
      /\ CallHolds(c)'
      /\ \A b \in LibClients \ {c} : call'[b] = call[b]
  BY DoneHolds DEF RelayReplace
<1>2. CASE Current(c, {RelayDoc})
  <2>1. /\ relay' = [holder |-> c, over |-> FALSE]
        /\ seen' \in [LibClients -> SUBSET (0..RelayDoc)]
        /\ \A b \in LibClients : seen'[b] = seen[b] \ {RelayDoc}
    BY <1>2, DocumentsWritten DEF RelayReplace, Write
  <2>2. LibTypeOK'
    BY <1>1, <2>1 DEF LibTypeOK, RelayReplace
  <2>3. \A b \in LibClients \ {c} : CallHolds(b)'
    BY <1>1, <2>1 DEF CallsHold, CallHolds, Live, RelayReplace
  <2> QED
    BY <1>1, <2>2, <2>3, LibCallStep DEF RelayReplace
<1>3. CASE ~Current(c, {RelayDoc})
  <2>1. UNCHANGED <<relay, seen>>
    BY <1>3 DEF RelayReplace
  <2>2. LibTypeOK'
    BY <1>1, <2>1 DEF LibTypeOK, RelayReplace
  <2>3. \A b \in LibClients \ {c} : CallHolds(b)'
    BY <1>1, <2>1, LibOthersHold DEF RelayReplace
  <2> QED
    BY <1>1, <2>2, <2>3, LibCallStep DEF RelayReplace
<1> QED
  BY <1>2, <1>3

\* Its tenure ends.
LEMMA RelayEndsKeeps ==
    ASSUME LibInvariant, RelayEnds PROVE LibInvariant'
<1> USE DEF LibInvariant
<1>1. /\ relay' = [relay EXCEPT !.over = TRUE]
      /\ seen' \in [LibClients -> SUBSET (0..RelayDoc)]
      /\ \A b \in LibClients : seen'[b] \subseteq seen[b]
  BY DocumentsWritten DEF RelayEnds, Write, LibTypeOK
<1>2. LibTypeOK'
  BY <1>1 DEF LibTypeOK, RelayEnds
<1>3. \A b \in LibClients : CallHolds(b)'
  BY <1>1 DEF CallsHold, CallHolds, Live, RelayEnds, LibTypeOK
<1> QED
  BY <1>2, <1>3, LibCallStep DEF RelayEnds

\* Every step of the library keeps its invariant.
LEMMA LibStep == LibInvariant /\ [LibNext]_libVars => LibInvariant'
<1> SUFFICES ASSUME LibInvariant, [LibNext]_libVars PROVE LibInvariant'
  OBVIOUS
<1>1. CASE LibNext
  BY <1>1, LapseKeeps, RelayEndsKeeps, EnqueueKeeps, ReadCounterKeeps, CreateKeeps,
     ReadKeeps, ReplaceKeeps, RelayReadKeeps, RelayReplaceKeeps DEF LibNext
<1>2. CASE UNCHANGED libVars
  BY <1>2 DEF libVars, LibInvariant, LibTypeOK, CallsHold, CallHolds, KeysHeld, KeyHeldBy,
              OneHolder, SequencesBehind, SequencesDiffer, Created, Live
<1> QED
  BY <1>1, <1>2

\* A set with exactly one member, or none, has the cardinality that says so.
LEMMA LibSafeFromInvariant == LibInvariant => LibSafe
<1> SUFFICES ASSUME LibInvariant PROVE LibSafe
  OBVIOUS
<1> USE DEF LibInvariant
<1>1. DedupIsExact
  <2>1. SUFFICES ASSUME NEW k \in Keys
                 PROVE  Cardinality({m \in LibMessages : Live(m) /\ messages[m].dedupKey = k})
                            = IF k \in dedup THEN 1 ELSE 0
    BY DEF DedupIsExact
  <2> DEFINE S == {m \in LibMessages : Live(m) /\ messages[m].dedupKey = k}
  <2>2. CASE k \in dedup
    <3>1. PICK m \in LibMessages : KeyHeldBy(m, k)
      BY <2>2 DEF KeysHeld
    <3>2. S = {m}
      BY <3>1 DEF OneHolder, KeyHeldBy
    <3> QED
      BY <2>2, <3>2, FS_Singleton
  <2>3. CASE k \notin dedup
    <3>1. S = {}
      BY <2>3 DEF KeysHeld, KeyHeldBy
    <3> QED
      BY <2>3, <3>1, FS_EmptySet
  <2> QED
    BY <2>2, <2>3
<1> QED
  BY <1>1 DEF LibSafe

\* No lock changes hands before its tenure ends.
LEMMA RelayStep == LibInvariant /\ [LibNext]_libVars => RelayNotStolen
<1> SUFFICES ASSUME LibInvariant, [LibNext]_libVars, relay'.holder # relay.holder
             PROVE  relay.over
  BY DEF RelayNotStolen
<1>1. CASE RelayEnds
  BY <1>1 DEF RelayEnds, LibInvariant, LibTypeOK
<1>2. CASE \E c \in LibClients : RelayReplace(c)
  <2>1. PICK c \in LibClients : RelayReplace(c)
    BY <1>2
  <2> QED
    BY <2>1 DEF RelayReplace, Current, LibInvariant, CallsHold, CallHolds
<1>3. CASE UNCHANGED relay
  BY <1>3
<1> QED
  BY <1>1, <1>2, <1>3 DEF LibNext, libVars, LibLeaseLapses, LibEnqueue, LibReadCounter,
                          LibCreate, LibRead, LibReplace, RelayRead

-------------------------------------------------------------------------------
(***************************************************************************)
(* The Cosmos runtime.                                                     *)
(***************************************************************************)
RunLabels == {"idle", "read lock", "claim", "read state", "abort", "commit", "batch",
              "mark", "write mark"}
LaneLabels == {"idle", "claim", "execute", "settle"}
CsItemStates == {"none", "active", "leased", "done", "dead"}

CsMoreTypes ==
    /\ csPc \in [CsHosts -> RunLabels]
    /\ csSnap \in [CsHosts -> [cursor : Nat, end : Nat, wake : Nat]]
    /\ lanePc \in [CsHosts -> LaneLabels]
    /\ laneItem \in [CsHosts -> 0..MaxCsEntries]

(***************************************************************************)
(* A run between its read of the state and its mark: the cursor it read is *)
(* current while the state document is the one it read, and if the wake it *)
(* read covers the last request, and that was news, it has read all of the *)
(* journal.                                                                *)
(***************************************************************************)
LastWakeRead(h) == csSnap[h].wake >= csRequested /\ appendPc = "idle" /\ lastRequest = "news"

RunHolds(h) ==
    /\ csPc[h] \in {"abort", "commit", "batch"} =>
           /\ csSnap[h].cursor <= csSnap[h].end /\ csSnap[h].end <= csEntries
           /\ LastWakeRead(h) => csSnap[h].end = csEntries
    /\ csPc[h] = "abort" => csSnap[h].end <= csCursor
    /\ csPc[h] = "batch" /\ StateDoc \in fresh[h] => csCursor = csSnap[h].cursor
    /\ csPc[h] \in {"mark", "write mark"} => (LastWakeRead(h) => csCursor = csEntries)

(***************************************************************************)
(* A lane step that finds its effect document unwritten finds the effect   *)
(* as it was read.                                                         *)
(***************************************************************************)
LaneHolds(h) ==
    /\ lanePc[h] # "idle" => laneItem[h] \in CsEntries
    /\ lanePc[h] = "claim" /\ laneItem[h] \in fresh[h] =>
           itemState[laneItem[h]] \in {"active", "leased"}
    /\ lanePc[h] = "settle" /\ laneItem[h] \in fresh[h] => OwnLease(h)

RunsHold == \A h \in CsHosts : RunHolds(h)
LanesHold == \A h \in CsHosts : LaneHolds(h)
NotYetQueued == \A e \in CsEntries : e > csCursor => itemState[e] = "none"

CsInvariant ==
    /\ CsTypeOK /\ CsMoreTypes
    /\ RunsHold /\ LanesHold
    /\ NotYetQueued /\ CheckpointMatchesEffects /\ CsWakeKept

LEMMA CosmosDocuments ==
    /\ StateDoc \notin CsEntries /\ LockDoc \notin CsEntries /\ WakeDoc \notin CsEntries
    /\ StateDoc # WakeDoc /\ StateDoc # LockDoc
    /\ CsEntries \subseteq 0..WakeDoc /\ StateDoc \in 0..WakeDoc
    /\ LockDoc \in 0..WakeDoc /\ WakeDoc \in 0..WakeDoc
    /\ CsEntries \subseteq 0..MaxCsEntries /\ CsEntries \subseteq Nat
BY CosmosBounds DEF StateDoc, LockDoc, WakeDoc, CsEntries

\* The invariant of the runtime holds at first.
LEMMA CosmosInitial == CsInit => CsInvariant
<1> SUFFICES ASSUME CsInit PROVE CsInvariant
  OBVIOUS
<1> USE DEF CsInit
<1>1. CsTypeOK
  <2>1. /\ csEntries \in 0..MaxCsEntries /\ csCursor \in 0..csEntries
        /\ csProcessed \in Nat /\ csRequested \in Nat /\ csFaults \in 0..MaxCsFaults
        /\ wakeTried \in [Clients -> 0..(WakeTries - 1)]
    BY CosmosBounds, CosmosWakes
  <2>2. fresh \in [Clients -> SUBSET (0..WakeDoc)]
    OBVIOUS
  <2> QED
    BY <2>1, <2>2 DEF CsTypeOK
<1>2. CsMoreTypes
  BY CosmosBounds DEF CsMoreTypes, RunLabels, LaneLabels, CsNoSnap
<1>3. RunsHold
  BY DEF RunsHold, RunHolds, CsNoSnap
<1>4. LanesHold
  BY DEF LanesHold, LaneHolds
<1>5. NotYetQueued /\ CheckpointMatchesEffects /\ CsWakeKept
  BY DEF NotYetQueued, CheckpointMatchesEffects, CsWakeKept, CsEntries
<1> QED
  BY <1>1, <1>2, <1>3, <1>4, <1>5 DEF CsInvariant

\* A run that another client's step does not disturb.
LEMMA RunKept ==
    ASSUME NEW g \in CsHosts, RunHolds(g), csPc'[g] = csPc[g], csSnap'[g] = csSnap[g],
           StateDoc \in fresh'[g] => StateDoc \in fresh[g],
           UNCHANGED <<csEntries, csCursor, csRequested, appendPc, lastRequest>>
    PROVE  RunHolds(g)'
BY DEF RunHolds, LastWakeRead

\* A lane keeps what it holds while its documents rest.
LEMMA LaneKept ==
    ASSUME NEW g \in CsHosts, LaneHolds(g), lanePc'[g] = lanePc[g], laneItem'[g] = laneItem[g],
           \A e \in CsEntries : e \in fresh'[g] => e \in fresh[g],
           \A e \in CsEntries : e \in fresh'[g] =>
               itemState'[e] = itemState[e] /\ itemHolder'[e] = itemHolder[e]
    PROVE  LaneHolds(g)'
<1>1. CASE lanePc[g] = "idle"
  BY <1>1 DEF LaneHolds
<1>2. CASE lanePc[g] # "idle"
  <2>1. laneItem[g] \in CsEntries
    BY <1>2 DEF LaneHolds
  <2> QED
    BY <2>1 DEF LaneHolds, OwnLease
<1> QED
  BY <1>1, <1>2

\* A step of a run that neither commits nor marks.
LEMMA EngineStepKeeps ==
    ASSUME CsInvariant, NEW h \in CsHosts,
           UNCHANGED <<csEntries, csCheckpoint, csItemVars, csWakeVars, csLaneVars, appendPc>>,
           CsTypeOK', CsMoreTypes', RunHolds(h)',
           \A g \in CsHosts \ {h} :
               /\ csPc'[g] = csPc[g] /\ csSnap'[g] = csSnap[g]
               /\ StateDoc \in fresh'[g] => StateDoc \in fresh[g],
           \A g \in CsHosts, e \in CsEntries : e \in fresh'[g] => e \in fresh[g]
    PROVE  CsInvariant'
<1> USE DEF CsInvariant, csCheckpoint, csItemVars, csWakeVars, csLaneVars
<1>1. RunsHold'
  BY RunKept DEF RunsHold
<1>2. LanesHold'
  BY LaneKept DEF LanesHold
<1>3. NotYetQueued' /\ CheckpointMatchesEffects' /\ CsWakeKept'
  BY DEF NotYetQueued, CheckpointMatchesEffects, CsWakeKept
<1> QED
  BY <1>1, <1>2, <1>3

LEMMA RunGoes ==
    ASSUME CsInvariant, NEW h \in CsHosts, NEW label \in RunLabels,
           csPc' = [csPc EXCEPT ![h] = label]
    PROVE  /\ csPc' \in [CsHosts -> RunLabels] /\ csPc'[h] = label
           /\ \A g \in CsHosts \ {h} : csPc'[g] = csPc[g]
BY DEF CsInvariant, CsMoreTypes

\* Before a run has read the state it has concluded nothing but its wake.
LEMMA EarlyRunHolds ==
    ASSUME NEW h \in CsHosts, csPc'[h] \in {"idle", "read lock", "claim", "read state"}
    PROVE  RunHolds(h)'
BY DEF RunHolds

LEMMA RunReturns ==
    ASSUME CsInvariant, NEW h \in CsHosts, CsReturn(h)
    PROVE  /\ csPc' \in [CsHosts -> RunLabels]
           /\ csSnap' \in [CsHosts -> [cursor : Nat, end : Nat, wake : Nat]]
           /\ RunHolds(h)'
           /\ \A g \in CsHosts \ {h} : csPc'[g] = csPc[g] /\ csSnap'[g] = csSnap[g]
<1> USE DEF CsInvariant, CsMoreTypes
<1>1. CsNoSnap \in [cursor : Nat, end : Nat, wake : Nat] /\ CsNoSnap.wake = 0
  BY DEF CsNoSnap
<1>2. csSnap' = [csSnap EXCEPT ![h] = CsNoSnap] /\ csPc' = [csPc EXCEPT ![h] = "idle"]
  BY DEF CsReturn, CsGoto
<1>3. /\ csPc' \in [CsHosts -> RunLabels] /\ csPc'[h] = "idle"
      /\ \A g \in CsHosts \ {h} : csPc'[g] = csPc[g]
  BY <1>2, RunGoes DEF RunLabels
<1>4. /\ csSnap' \in [CsHosts -> [cursor : Nat, end : Nat, wake : Nat]]
      /\ csSnap'[h].wake = 0
      /\ \A g \in CsHosts \ {h} : csSnap'[g] = csSnap[g]
  BY <1>1, <1>2
<1>5. RunHolds(h)'
  BY <1>3, <1>4 DEF RunHolds
<1> QED
  BY <1>3, <1>4, <1>5

LEMMA CsReads ==
    ASSUME CsInvariant, NEW c \in Clients, NEW docs \in SUBSET (0..WakeDoc), Reads(c, docs)
    PROVE  /\ fresh' \in [Clients -> SUBSET (0..WakeDoc)]
           /\ fresh'[c] = fresh[c] \cup docs
           /\ \A b \in Clients \ {c} : fresh'[b] = fresh[b]
BY DEF CsInvariant, CsTypeOK, Reads

LEMMA CsWrites ==
    ASSUME CsInvariant, NEW docs, Writes(docs)
    PROVE  /\ fresh' \in [Clients -> SUBSET (0..WakeDoc)]
           /\ \A b \in Clients : fresh'[b] = fresh[b] \ docs
BY DEF CsInvariant, CsTypeOK, Writes

LEMMA HostsAreClients == CsHosts \subseteq Clients /\ CsAppender \in Clients
BY DEF Clients

\* A fault leaves the count of faults in its bound.
LEMMA FaultsBounded ==
    ASSUME CsInvariant, CsFault \/ csFaults' = csFaults PROVE csFaults' \in 0..MaxCsFaults
BY CosmosBounds DEF CsInvariant, CsTypeOK, CsFault

\* The wake is read, at the start of a run.
LEMMA ReadWakeKeeps ==
    ASSUME CsInvariant, NEW h \in CsHosts, CsReadWake(h) PROVE CsInvariant'
<1> USE DEF CsInvariant
<1>1. /\ csPc' \in [CsHosts -> RunLabels] /\ csPc'[h] = "read lock"
      /\ \A g \in CsHosts \ {h} : csPc'[g] = csPc[g]
  BY RunGoes DEF CsReadWake, CsAtRest, CsGoto, RunLabels
<1>2. /\ csSnap' \in [CsHosts -> [cursor : Nat, end : Nat, wake : Nat]]
      /\ \A g \in CsHosts \ {h} : csSnap'[g] = csSnap[g]
  BY DEF CsReadWake, CsAtRest, CsMoreTypes, CsTypeOK
<1>3. RunHolds(h)'
  BY <1>1, EarlyRunHolds
<1>4. CsTypeOK' /\ CsMoreTypes'
  BY <1>1, <1>2 DEF CsTypeOK, CsMoreTypes, CsReadWake, CsAtRest, csCheckpoint, csItemVars, csWakeVars,
                    csLaneVars
<1> QED
  BY <1>1, <1>2, <1>3, <1>4, EngineStepKeeps DEF CsReadWake, CsAtRest

\* The lock document is read.
LEMMA ReadLockKeeps ==
    ASSUME CsInvariant, NEW h \in CsHosts, CsReadLock(h) PROVE CsInvariant'
<1> USE DEF CsInvariant
<1>1. CASE csLock = NoClient \/ lockExpired
  <2>1. /\ csPc' \in [CsHosts -> RunLabels] /\ csPc'[h] = "claim"
        /\ \A g \in CsHosts \ {h} : csPc'[g] = csPc[g]
    BY <1>1, RunGoes DEF CsReadLock, CsGoto, RunLabels
  <2>2. /\ fresh' \in [Clients -> SUBSET (0..WakeDoc)]
        /\ fresh'[h] = fresh[h] \cup {LockDoc}
        /\ \A b \in Clients \ {h} : fresh'[b] = fresh[b]
    BY <1>1, CsReads, CosmosDocuments, HostsAreClients DEF CsReadLock
  <2>3. RunHolds(h)'
    BY <1>1, <2>1 DEF RunHolds, RunsHold, CsReadLock, csWakeVars
  <2>4. CsTypeOK' /\ CsMoreTypes'
    BY <1>1, <2>1, <2>2 DEF CsTypeOK, CsMoreTypes, CsReadLock, csCheckpoint, csItemVars,
                            csWakeVars, csLaneVars
  <2>5. /\ \A g \in CsHosts \ {h} : fresh'[g] = fresh[g]
        /\ \A g \in CsHosts, e \in CsEntries : e \in fresh'[g] => e \in fresh[g]
    BY <2>2, CosmosDocuments, HostsAreClients
  <2> QED
    BY <1>1, <2>1, <2>3, <2>4, <2>5, EngineStepKeeps DEF CsReadLock
<1>2. CASE ~(csLock = NoClient \/ lockExpired)
  <2>1. /\ csPc' \in [CsHosts -> RunLabels]
        /\ csSnap' \in [CsHosts -> [cursor : Nat, end : Nat, wake : Nat]]
        /\ RunHolds(h)'
        /\ \A g \in CsHosts \ {h} : csPc'[g] = csPc[g] /\ csSnap'[g] = csSnap[g]
    BY <1>2, RunReturns DEF CsReadLock, csWakeVars
  <2>2. CsTypeOK' /\ CsMoreTypes'
    BY <1>2, <2>1 DEF CsTypeOK, CsMoreTypes, CsReadLock, csCheckpoint, csItemVars,
                      csWakeVars, csLaneVars
  <2> QED
    BY <1>2, <2>1, <2>2, EngineStepKeeps DEF CsReadLock
<1> QED
  BY <1>1, <1>2

\* The lock document is written, if nobody wrote it since.
LEMMA ClaimKeeps ==
    ASSUME CsInvariant, NEW h \in CsHosts, CsClaim(h) PROVE CsInvariant'
<1> USE DEF CsInvariant
<1>1. /\ csPc' \in [CsHosts -> RunLabels]
      /\ csSnap' \in [CsHosts -> [cursor : Nat, end : Nat, wake : Nat]]
      /\ RunHolds(h)'
      /\ \A g \in CsHosts \ {h} : csPc'[g] = csPc[g] /\ csSnap'[g] = csSnap[g]
  <2>1. CASE CsReturn(h)
    BY <2>1, RunReturns DEF CsClaim, csWakeVars
  <2>2. CASE CsGoto(h, "read state") /\ UNCHANGED csSnap
    <3>1. /\ csPc' \in [CsHosts -> RunLabels] /\ csPc'[h] = "read state"
          /\ \A g \in CsHosts \ {h} : csPc'[g] = csPc[g]
      BY <2>2, RunGoes DEF CsGoto, RunLabels
    <3>2. RunHolds(h)'
      BY <2>2, <3>1 DEF RunHolds, RunsHold, CsClaim, csWakeVars
    <3> QED
      BY <2>2, <3>1, <3>2 DEF CsMoreTypes
  <2> QED
    BY <2>1, <2>2 DEF CsClaim
<1>2. /\ fresh' \in [Clients -> SUBSET (0..WakeDoc)]
      /\ \A b \in Clients : fresh'[b] \subseteq fresh[b]
  BY CsWrites DEF CsClaim, CsTypeOK
<1>3. csLock' \in CsHosts \cup {NoClient} /\ lockExpired' \in BOOLEAN
  BY DEF CsClaim, CsTypeOK
<1>4. csFaults' \in 0..MaxCsFaults
  BY FaultsBounded DEF CsClaim
<1>5. CsTypeOK' /\ CsMoreTypes'
  BY <1>1, <1>2, <1>3, <1>4 DEF CsTypeOK, CsMoreTypes, CsClaim, csCheckpoint, csItemVars,
                                csWakeVars, csLaneVars
<1> QED
  BY <1>1, <1>2, <1>5, EngineStepKeeps, HostsAreClients DEF CsClaim

\* The run takes in the whole journal.
LEMMA ReadStateKeeps ==
    ASSUME CsInvariant, NEW h \in CsHosts, CsReadState(h) PROVE CsInvariant'
<1> USE DEF CsInvariant
<1>1. /\ csPc' \in [CsHosts -> RunLabels]
      /\ csPc'[h] = IF csEntries = csCursor THEN "abort" ELSE "commit"
      /\ \A g \in CsHosts \ {h} : csPc'[g] = csPc[g]
  BY RunGoes DEF CsReadState, CsGoto, RunLabels
<1>2. csCursor \in Nat /\ csEntries \in Nat /\ csCursor <= csEntries
  BY CosmosBounds DEF CsTypeOK
<1>3. csSnap[h] \in [cursor : Nat, end : Nat, wake : Nat]
  BY DEF CsMoreTypes
<1>4. csSnap' = [csSnap EXCEPT ![h].cursor = csCursor, ![h].end = csEntries]
  BY DEF CsReadState
<1>5. /\ csSnap' \in [CsHosts -> [cursor : Nat, end : Nat, wake : Nat]]
      /\ csSnap'[h].cursor = csCursor /\ csSnap'[h].end = csEntries
      /\ csSnap'[h].wake = csSnap[h].wake
      /\ \A g \in CsHosts \ {h} : csSnap'[g] = csSnap[g]
  BY <1>2, <1>3, <1>4 DEF CsMoreTypes
<1>6. RunHolds(h)'
  <2>1. UNCHANGED <<csEntries, csCursor, csRequested, lastRequest, fresh>>
    BY DEF CsReadState, csWakeVars, csCheckpoint
  <2> QED
    BY <1>1, <1>2, <1>5, <2>1 DEF RunHolds, LastWakeRead
<1>7. CsTypeOK' /\ CsMoreTypes'
  BY <1>1, <1>5 DEF CsTypeOK, CsMoreTypes, CsReadState, csCheckpoint, csItemVars, csWakeVars,
                    csLaneVars
<1> QED
  BY <1>1, <1>5, <1>6, <1>7, EngineStepKeeps DEF CsReadState

\* A run without work gives the lock back.
LEMMA AbortKeeps ==
    ASSUME CsInvariant, NEW h \in CsHosts, CsAbort(h) PROVE CsInvariant'
<1> USE DEF CsInvariant
<1>1. /\ csPc' \in [CsHosts -> RunLabels] /\ csPc'[h] = "mark"
      /\ \A g \in CsHosts \ {h} : csPc'[g] = csPc[g]
  BY RunGoes DEF CsAbort, CsGoto, RunLabels
<1>2. /\ fresh' \in [Clients -> SUBSET (0..WakeDoc)]
      /\ \A b \in Clients : fresh'[b] \subseteq fresh[b]
  BY CsWrites DEF CsAbort, CsTypeOK
<1>3. csLock' \in CsHosts \cup {NoClient} /\ lockExpired' \in BOOLEAN
  BY DEF CsAbort, CsTypeOK, LockReleased
<1>4. csCursor <= csEntries /\ csCursor \in Nat /\ csEntries \in Nat /\ csSnap[h].end \in Nat
  BY CosmosBounds DEF CsTypeOK, CsMoreTypes
<1>5. RunHolds(h)'
  <2>1. UNCHANGED <<csEntries, csCursor, csRequested, csSnap, appendPc, lastRequest>>
    BY DEF CsAbort, csWakeVars, csCheckpoint
  <2>2. /\ csSnap[h].end <= csCursor
        /\ LastWakeRead(h) => csSnap[h].end = csEntries
    BY DEF RunsHold, RunHolds, CsAbort
  <2>3. LastWakeRead(h)' <=> LastWakeRead(h)
    BY <2>1 DEF LastWakeRead
  <2> QED
    BY <1>1, <1>4, <2>1, <2>2, <2>3 DEF RunHolds
<1>6. CsTypeOK' /\ CsMoreTypes'
  BY <1>1, <1>2, <1>3 DEF CsTypeOK, CsMoreTypes, CsAbort, csCheckpoint, csItemVars,
                          csWakeVars, csLaneVars
<1> QED
  BY <1>1, <1>2, <1>5, <1>6, EngineStepKeeps, HostsAreClients DEF CsAbort

\* The checks of commit: past them the cursor the run read is the one in the document.
LEMMA CommitKeeps ==
    ASSUME CsInvariant, NEW h \in CsHosts, CsCommit(h) PROVE CsInvariant'
<1> USE DEF CsInvariant
<1>1. CASE Reads(h, {LockDoc, StateDoc})
           /\ csCursor = csSnap[h].cursor /\ CsGoto(h, "batch")
           /\ UNCHANGED <<csLock, lockExpired, csSnap>>
  <2>1. /\ csPc' \in [CsHosts -> RunLabels] /\ csPc'[h] = "batch"
        /\ \A g \in CsHosts \ {h} : csPc'[g] = csPc[g]
    BY <1>1, RunGoes DEF CsGoto, RunLabels
  <2>2. {LockDoc, StateDoc} \in SUBSET (0..WakeDoc)
    BY CosmosDocuments
  <2>3. /\ fresh' \in [Clients -> SUBSET (0..WakeDoc)]
        /\ fresh'[h] = fresh[h] \cup {LockDoc, StateDoc}
        /\ \A b \in Clients \ {h} : fresh'[b] = fresh[b]
    BY <1>1, <2>2, CsReads, HostsAreClients
  <2>4. UNCHANGED <<csEntries, csCursor, csRequested, csSnap, appendPc, lastRequest>>
    BY <1>1 DEF CsCommit, csWakeVars, csCheckpoint
  <2>5. /\ csSnap[h].cursor <= csSnap[h].end /\ csSnap[h].end <= csEntries
        /\ LastWakeRead(h) => csSnap[h].end = csEntries
    BY DEF RunsHold, RunHolds, CsCommit
  <2>6. LastWakeRead(h)' <=> LastWakeRead(h)
    BY <2>4 DEF LastWakeRead
  <2>7. RunHolds(h)'
    BY <1>1, <2>1, <2>4, <2>5, <2>6 DEF RunHolds
  <2>8. CsTypeOK' /\ CsMoreTypes'
    BY <1>1, <2>1, <2>3 DEF CsTypeOK, CsMoreTypes, CsCommit, csCheckpoint, csItemVars,
                            csWakeVars, csLaneVars
  <2>9. /\ \A g \in CsHosts \ {h} : fresh'[g] = fresh[g]
        /\ \A g \in CsHosts, e \in CsEntries : e \in fresh'[g] => e \in fresh[g]
    BY <2>3, CosmosDocuments, HostsAreClients
  <2> QED
    BY <2>1, <2>4, <2>7, <2>8, <2>9, EngineStepKeeps DEF CsCommit
<1>2. CASE CsReturn(h) /\ (\/ LockReleased /\ Writes({LockDoc})
                           \/ UNCHANGED <<csLock, lockExpired, fresh>>)
  <2>1. /\ csPc' \in [CsHosts -> RunLabels]
        /\ csSnap' \in [CsHosts -> [cursor : Nat, end : Nat, wake : Nat]]
        /\ RunHolds(h)'
        /\ \A g \in CsHosts \ {h} : csPc'[g] = csPc[g] /\ csSnap'[g] = csSnap[g]
    BY <1>2, RunReturns DEF CsCommit, csWakeVars
  <2>2. /\ fresh' \in [Clients -> SUBSET (0..WakeDoc)]
        /\ \A b \in Clients : fresh'[b] \subseteq fresh[b]
    BY <1>2, CsWrites DEF CsTypeOK
  <2>3. csLock' \in CsHosts \cup {NoClient} /\ lockExpired' \in BOOLEAN
    BY <1>2 DEF CsTypeOK, LockReleased
  <2>4. CsTypeOK' /\ CsMoreTypes'
    BY <2>1, <2>2, <2>3 DEF CsTypeOK, CsMoreTypes, CsCommit, csCheckpoint, csItemVars,
                            csWakeVars, csLaneVars
  <2> QED
    BY <2>1, <2>2, <2>4, EngineStepKeeps, HostsAreClients DEF CsCommit
<1> QED
  BY <1>1, <1>2 DEF CsCommit

\* The batch is applied to the cursor the run read: it queues what no batch queued.
LEMMA BatchTakes ==
    ASSUME CsInvariant, NEW h \in CsHosts, CsBatch(h), IfMatch(h, {LockDoc, StateDoc})
    PROVE  /\ csSnap[h].cursor = csCursor /\ csCursor <= csSnap[h].end
           /\ csSnap[h].end <= csEntries /\ csCursor' = csSnap[h].end
           /\ \A e \in CsEntries : e \in Batch(h) <=> csCursor < e /\ e <= csCursor'
           /\ csQueued' \in [CsEntries -> Nat]
           /\ \A e \in CsEntries : csQueued'[e] = csQueued[e] + IF e \in Batch(h) THEN 1 ELSE 0
           /\ itemState' \in [CsEntries -> CsItemStates]
           /\ \A e \in CsEntries :
                 itemState'[e] = IF e \in Batch(h) THEN "active" ELSE itemState[e]
           /\ \A e \in Batch(h) : itemState[e] = "none"
           /\ csLock' = NoClient /\ lockExpired' = FALSE
           /\ fresh' \in [Clients -> SUBSET (0..WakeDoc)]
           /\ \A b \in Clients : fresh'[b] = fresh[b] \ {LockDoc, StateDoc}
<1> USE DEF CsInvariant
<1>1. /\ csSnap[h].cursor = csCursor /\ csSnap[h].cursor <= csSnap[h].end
      /\ csSnap[h].end <= csEntries
  BY DEF RunsHold, RunHolds, CsBatch, IfMatch
<1>2. /\ csCursor' = csSnap[h].end
      /\ csQueued' = [e \in CsEntries |-> csQueued[e] + IF e \in Batch(h) THEN 1 ELSE 0]
      /\ itemState' = [e \in CsEntries |-> IF e \in Batch(h) THEN "active" ELSE itemState[e]]
      /\ csLock' = NoClient /\ lockExpired' = FALSE
  BY DEF CsBatch, LockReleased
<1>3. /\ fresh' \in [Clients -> SUBSET (0..WakeDoc)]
      /\ \A b \in Clients : fresh'[b] = fresh[b] \ {LockDoc, StateDoc}
  BY CsWrites DEF CsBatch
<1>4. \A e \in CsEntries : e \in Batch(h) <=> csCursor < e /\ e <= csCursor'
  BY <1>1, <1>2 DEF Batch
<1>5. \A e \in Batch(h) : itemState[e] = "none"
  <2>1. SUFFICES ASSUME NEW e \in Batch(h) PROVE itemState[e] = "none"
    OBVIOUS
  <2>2. e \in CsEntries /\ csCursor < e /\ e \in Nat /\ csCursor \in Nat
    BY <1>1, CosmosDocuments, CosmosBounds DEF Batch, CsTypeOK
  <2> QED
    BY <2>2 DEF NotYetQueued
<1>6. csQueued' \in [CsEntries -> Nat] /\ itemState' \in [CsEntries -> CsItemStates]
  BY <1>2 DEF CsTypeOK, CsItemStates
<1> QED
  BY <1>1, <1>2, <1>3, <1>4, <1>5, <1>6

\* The batch writes checkpoint, effects and lock together, or nothing.
LEMMA BatchKeeps ==
    ASSUME CsInvariant, NEW h \in CsHosts, CsBatch(h) PROVE CsInvariant'
<1> USE DEF CsInvariant
<1>1. CASE IfMatch(h, {LockDoc, StateDoc})
  <2>1. /\ csSnap[h].cursor = csCursor /\ csCursor <= csSnap[h].end
        /\ csSnap[h].end <= csEntries /\ csCursor' = csSnap[h].end
        /\ \A e \in CsEntries : e \in Batch(h) <=> csCursor < e /\ e <= csCursor'
        /\ csQueued' \in [CsEntries -> Nat]
        /\ \A e \in CsEntries : csQueued'[e] = csQueued[e] + IF e \in Batch(h) THEN 1 ELSE 0
        /\ itemState' \in [CsEntries -> CsItemStates]
        /\ \A e \in CsEntries :
              itemState'[e] = IF e \in Batch(h) THEN "active" ELSE itemState[e]
        /\ \A e \in Batch(h) : itemState[e] = "none"
        /\ csLock' = NoClient /\ lockExpired' = FALSE
        /\ fresh' \in [Clients -> SUBSET (0..WakeDoc)]
        /\ \A b \in Clients : fresh'[b] = fresh[b] \ {LockDoc, StateDoc}
    BY <1>1, BatchTakes
  <2>2. UNCHANGED <<csEntries, csRequested, csProcessed, appendPc, lastRequest, wakeTried, itemHolder, lanePc, laneItem>>
    BY DEF CsBatch, csWakeVars, csLaneVars
  <2>3. /\ csCursor \in Nat /\ csEntries \in Nat /\ csSnap[h].end \in Nat
        /\ csRequested \in Nat /\ csProcessed \in Nat
    BY CosmosBounds DEF CsTypeOK, CsMoreTypes
  <2>4. /\ csPc' \in [CsHosts -> RunLabels]
        /\ csSnap' \in [CsHosts -> [cursor : Nat, end : Nat, wake : Nat]]
        /\ RunHolds(h)'
        /\ \A g \in CsHosts \ {h} : csPc'[g] = csPc[g] /\ csSnap'[g] = csSnap[g]
    <3>1. CASE CsReturn(h)
      BY <2>2, <3>1, RunReturns
    <3>2. CASE CsGoto(h, "mark") /\ UNCHANGED csSnap
      <4>1. /\ csPc' \in [CsHosts -> RunLabels] /\ csPc'[h] = "mark"
            /\ \A g \in CsHosts \ {h} : csPc'[g] = csPc[g]
        BY <3>2, RunGoes DEF CsGoto, RunLabels
      <4>2. (LastWakeRead(h) => csSnap[h].end = csEntries)
        BY DEF RunsHold, RunHolds, CsBatch
      <4>3. LastWakeRead(h)' <=> LastWakeRead(h)
        BY <2>2, <3>2 DEF LastWakeRead
      <4>4. RunHolds(h)'
        BY <2>1, <2>2, <3>2, <4>1, <4>2, <4>3 DEF RunHolds
      <4> QED
        BY <3>2, <4>1, <4>4 DEF CsMoreTypes
    <3> QED
      BY <1>1, <3>1, <3>2 DEF CsBatch
  <2>5. csFaults' \in 0..MaxCsFaults
    BY <1>1, FaultsBounded DEF CsBatch
  <2>6. CsTypeOK'
    <3>1. csCursor' \in 0..csEntries'
      BY <2>1, <2>2, <2>3
    <3> QED
      BY <2>1, <2>2, <2>5, <3>1 DEF CsTypeOK, CsItemStates
  <2>7. CsMoreTypes'
    BY <2>2, <2>4 DEF CsMoreTypes
  <2>8. ASSUME NEW g \in CsHosts \ {h} PROVE RunHolds(g)'
    <3>1. /\ RunHolds(g) /\ csPc'[g] = csPc[g] /\ csSnap'[g] = csSnap[g]
          /\ StateDoc \notin fresh'[g]
      BY <2>1, <2>4, HostsAreClients DEF RunsHold
    <3>2. csCursor' >= csCursor /\ csSnap[g].end \in Nat
      BY <2>1, <2>3 DEF CsMoreTypes
    <3>3. LastWakeRead(g)' <=> LastWakeRead(g)
      BY <2>2, <3>1 DEF LastWakeRead
    <3>4. ASSUME csPc[g] \in {"mark", "write mark"}, LastWakeRead(g) PROVE csCursor' = csEntries
      <4>1. csCursor = csEntries
        BY <3>1, <3>4 DEF RunHolds
      <4> QED
        BY <2>1, <2>3, <4>1
    <3>5. ASSUME csPc[g] = "abort" PROVE csSnap[g].end <= csCursor'
      <4>1. csSnap[g].end <= csCursor
        BY <3>1, <3>5 DEF RunHolds
      <4> QED
        BY <2>1, <2>3, <3>2, <4>1
    <3> QED
      BY <2>2, <3>1, <3>3, <3>4, <3>5 DEF RunHolds
  <2>9. RunsHold'
    BY <2>4, <2>8 DEF RunsHold
  <2>10. ASSUME NEW g \in CsHosts PROVE LaneHolds(g)'
    <3>1. LaneHolds(g) /\ fresh'[g] \subseteq fresh[g]
      BY <2>1, HostsAreClients DEF LanesHold
    <3>2. CASE lanePc[g] = "idle"
      BY <2>2, <3>2 DEF LaneHolds
    <3>3. CASE lanePc[g] # "idle"
      <4>1. laneItem[g] \in CsEntries
        BY <3>1, <3>3 DEF LaneHolds
      <4>2. itemState[laneItem[g]] # "none" => itemState'[laneItem[g]] = itemState[laneItem[g]]
        BY <2>1, <4>1
      <4> QED
        BY <2>2, <3>1, <4>1, <4>2 DEF LaneHolds, OwnLease
    <3> QED
      BY <3>2, <3>3
  <2>11. LanesHold'
    BY <2>10 DEF LanesHold
  <2>12. NotYetQueued' /\ CheckpointMatchesEffects'
    <3>1. SUFFICES ASSUME NEW e \in CsEntries
                   PROVE  /\ e > csCursor' => itemState'[e] = "none"
                          /\ csQueued'[e] = IF e <= csCursor' THEN 1 ELSE 0
      BY DEF NotYetQueued, CheckpointMatchesEffects
    <3>2. /\ e > csCursor => itemState[e] = "none"
          /\ csQueued[e] = IF e <= csCursor THEN 1 ELSE 0
          /\ e \in Nat /\ csCursor' \in Nat
      BY <2>1, <2>3, CosmosDocuments DEF NotYetQueued, CheckpointMatchesEffects
    <3> QED
      BY <2>1, <2>3, <3>2
  <2>13. CsWakeKept'
    BY <2>1, <2>2, <2>3 DEF CsWakeKept
  <2> QED
    BY <2>6, <2>7, <2>9, <2>11, <2>12, <2>13
<1>2. CASE ~IfMatch(h, {LockDoc, StateDoc})
  <2>1. /\ csPc' \in [CsHosts -> RunLabels]
        /\ csSnap' \in [CsHosts -> [cursor : Nat, end : Nat, wake : Nat]]
        /\ RunHolds(h)'
        /\ \A g \in CsHosts \ {h} : csPc'[g] = csPc[g] /\ csSnap'[g] = csSnap[g]
    BY <1>2, RunReturns DEF CsBatch, csWakeVars
  <2>2. UNCHANGED <<csEntries, csCheckpoint, csItemVars, csWakeVars, csLaneVars, appendPc,
                    csLock, lockExpired, fresh, csFaults>>
    BY <1>2 DEF CsBatch, csItemVars
  <2>3. CsTypeOK' /\ CsMoreTypes'
    BY <2>1, <2>2 DEF CsTypeOK, CsMoreTypes, csCheckpoint, csItemVars, csWakeVars, csLaneVars
  <2> QED
    BY <2>1, <2>2, <2>3, EngineStepKeeps
<1> QED
  BY <1>1, <1>2

\* The wake is read again, to be marked processed.
LEMMA ReadWakeToMarkKeeps ==
    ASSUME CsInvariant, NEW h \in CsHosts, CsReadWakeToMark(h) PROVE CsInvariant'
<1> USE DEF CsInvariant
<1>1. /\ csPc' \in [CsHosts -> RunLabels] /\ csPc'[h] = "write mark"
      /\ \A g \in CsHosts \ {h} : csPc'[g] = csPc[g]
  BY RunGoes DEF CsReadWakeToMark, CsGoto, RunLabels
<1>2. {WakeDoc} \in SUBSET (0..WakeDoc)
  BY CosmosDocuments
<1>3. /\ fresh' \in [Clients -> SUBSET (0..WakeDoc)]
      /\ fresh'[h] = fresh[h] \cup {WakeDoc}
      /\ \A b \in Clients \ {h} : fresh'[b] = fresh[b]
  BY <1>2, CsReads, HostsAreClients DEF CsReadWakeToMark
<1>4. UNCHANGED <<csEntries, csCursor, csRequested, csSnap, appendPc, lastRequest>>
  BY DEF CsReadWakeToMark, csWakeVars, csCheckpoint
<1>5. (LastWakeRead(h) => csCursor = csEntries)
  BY DEF RunsHold, RunHolds, CsReadWakeToMark
<1>6. LastWakeRead(h)' <=> LastWakeRead(h)
  BY <1>4 DEF LastWakeRead
<1>7. RunHolds(h)'
  BY <1>1, <1>4, <1>5, <1>6 DEF RunHolds
<1>8. CsTypeOK' /\ CsMoreTypes'
  BY <1>1, <1>3 DEF CsTypeOK, CsMoreTypes, CsReadWakeToMark, csCheckpoint, csItemVars,
                    csWakeVars, csLaneVars
<1>9. /\ \A g \in CsHosts \ {h} : fresh'[g] = fresh[g]
      /\ \A g \in CsHosts, e \in CsEntries : e \in fresh'[g] => e \in fresh[g]
  BY <1>3, CosmosDocuments, HostsAreClients
<1> QED
  BY <1>1, <1>4, <1>7, <1>8, <1>9, EngineStepKeeps DEF CsReadWakeToMark

\* A step that leaves checkpoint, effects and lane as they are.
LEMMA AsideStepKeeps ==
    ASSUME CsInvariant, UNCHANGED <<csCheckpoint, csItemVars, csLaneVars>>,
           CsTypeOK', CsMoreTypes', RunsHold', CsWakeKept',
           \A g \in CsHosts, e \in CsEntries : e \in fresh'[g] => e \in fresh[g]
    PROVE  CsInvariant'
<1> USE DEF CsInvariant, csCheckpoint, csItemVars, csLaneVars
<1>1. LanesHold'
  BY LaneKept DEF LanesHold
<1>2. NotYetQueued' /\ CheckpointMatchesEffects'
  BY DEF NotYetQueued, CheckpointMatchesEffects
<1> QED
  BY <1>1, <1>2

\* The conflicts of an update stay below the number of its tries.
LEMMA TriesBounded ==
    ASSUME CsInvariant, NEW c \in Clients,
           Tried(c, 0) \/ (~GivesUp(c) /\ Tried(c, wakeTried[c] + 1))
    PROVE  wakeTried' \in [Clients -> 0..(WakeTries - 1)]
<1> DEFINE bound == 0..(WakeTries - 1)
<1>1. wakeTried \in [Clients -> bound] /\ WakeTries \in Nat \ {0}
  BY CosmosWakes DEF CsInvariant, CsTypeOK
<1>2. 0 \in bound /\ (~GivesUp(c) => wakeTried[c] + 1 \in bound)
  BY <1>1 DEF GivesUp
<1> HIDE DEF bound
<1>3. wakeTried' \in [Clients -> bound]
  BY <1>1, <1>2 DEF Tried
<1> QED
  BY <1>3 DEF bound

\* The mark of a run covers the journal, or a later request is pending.
LEMMA MarkKeeps ==
    ASSUME CsInvariant, NEW h \in CsHosts, CsMark(h) PROVE CsInvariant'
<1> USE DEF CsInvariant
<1>3. UNCHANGED <<csEntries, csCursor, csQueued, csRequested, appendPc, lastRequest>>
  BY DEF CsMark, csCheckpoint
<1>1. (LastWakeRead(h) => csCursor = csEntries)
  BY DEF RunsHold, RunHolds, CsMark
<1>2. csSnap[h].wake \in Nat /\ csRequested \in Nat /\ csProcessed \in Nat
  BY DEF CsTypeOK, CsMoreTypes
<1>4. /\ (LastWakeRead(h) => csCursor = csEntries)
      /\ csSnap[h].wake \in Nat /\ csRequested \in Nat /\ csProcessed \in Nat
  BY <1>1, <1>2
<1>5. csProcessed' = csProcessed \/ csProcessed' = csSnap[h].wake
  BY DEF CsMark, CapturedRequest
<1>6. /\ csPc' \in [CsHosts -> RunLabels]
      /\ csSnap' \in [CsHosts -> [cursor : Nat, end : Nat, wake : Nat]]
      /\ RunHolds(h)'
      /\ \A g \in CsHosts \ {h} : csPc'[g] = csPc[g] /\ csSnap'[g] = csSnap[g]
  <2>1. CASE CsReturn(h)
    BY <1>3, <2>1, RunReturns
  <2>2. CASE CsGoto(h, "mark") /\ UNCHANGED csSnap
    <3>1. /\ csPc' \in [CsHosts -> RunLabels] /\ csPc'[h] = "mark"
          /\ \A g \in CsHosts \ {h} : csPc'[g] = csPc[g]
      BY <2>2, RunGoes DEF CsGoto, RunLabels
    <3>2. LastWakeRead(h)' <=> LastWakeRead(h)
      BY <1>3, <2>2 DEF LastWakeRead
    <3>3. RunHolds(h)'
      BY <1>3, <1>4, <2>2, <3>1, <3>2 DEF RunHolds
    <3> QED
      BY <2>2, <3>1, <3>3 DEF CsMoreTypes
  <2> QED
    BY <2>1, <2>2 DEF CsMark
<1>7. /\ fresh' \in [Clients -> SUBSET (0..WakeDoc)]
      /\ \A b \in Clients : fresh'[b] \subseteq fresh[b]
  BY CsWrites DEF CsMark, CsTypeOK
<1>8. csProcessed' \in Nat /\ wakeTried' \in [Clients -> 0..(WakeTries - 1)]
  BY <1>4, <1>5, TriesBounded, HostsAreClients DEF CsMark
<1>9. CsTypeOK' /\ CsMoreTypes'
  BY <1>6, <1>7, <1>8 DEF CsTypeOK, CsMoreTypes, CsMark, csCheckpoint, csItemVars,
                          csWakeVars, csLaneVars
<1>10. RunsHold'
  <2>1. \A g \in CsHosts \ {h} : RunHolds(g)'
    BY <1>3, <1>6, <1>7, RunKept, HostsAreClients DEF RunsHold
  <2> QED
    BY <1>6, <2>1 DEF RunsHold
<1>11. CsWakeKept'
  <2>1. CASE csProcessed' = csProcessed
    BY <1>3, <2>1 DEF CsWakeKept
  <2>2. CASE csProcessed' = csSnap[h].wake
    <3>1. CASE LastWakeRead(h)
      BY <1>3, <1>4, <3>1 DEF CsWakeKept, CsTypeOK
    <3>2. CASE ~LastWakeRead(h)
      BY <1>3, <1>4, <2>2, <3>2 DEF CsWakeKept, LastWakeRead
    <3> QED
      BY <3>1, <3>2
  <2> QED
    BY <1>5, <2>1, <2>2
<1> QED
  BY <1>7, <1>9, <1>10, <1>11, AsideStepKeeps, HostsAreClients DEF CsMark

\* A lease runs out without a write.
LEMMA LeaseExpiresKeeps == ASSUME CsInvariant, CsLeaseExpires PROVE CsInvariant'
<1> USE DEF CsInvariant
<1>1. csFaults' \in 0..MaxCsFaults
  BY FaultsBounded DEF CsLeaseExpires
<1>2. CsTypeOK' /\ CsMoreTypes'
  BY <1>1 DEF CsTypeOK, CsMoreTypes, CsLeaseExpires, csCheckpoint, csItemVars, csWakeVars,
              csLaneVars
<1>3. RunsHold'
  BY RunKept DEF RunsHold, CsLeaseExpires, csCheckpoint, csWakeVars
<1>4. CsWakeKept'
  BY DEF CsWakeKept, CsLeaseExpires, csCheckpoint, csWakeVars
<1> QED
  BY <1>2, <1>3, <1>4, AsideStepKeeps DEF CsLeaseExpires

\* The journal grows; its wake is requested next.
LEMMA AppendKeeps == ASSUME CsInvariant, CsAppend PROVE CsInvariant'
<1> USE DEF CsInvariant
<1>1. /\ csEntries' = csEntries + 1 /\ csEntries < MaxCsEntries
      /\ UNCHANGED <<csCursor, csRequested, lastRequest, csPc, csSnap, fresh>>
  BY DEF CsAppend, csCheckpoint, csWakeVars
<1>2. csEntries \in Nat /\ csCursor \in 0..csEntries
  BY CosmosBounds DEF CsTypeOK
<1>3. /\ csEntries' = csEntries + 1 /\ csEntries < MaxCsEntries /\ csEntries \in Nat
      /\ csCursor \in 0..csEntries
      /\ UNCHANGED <<csCursor, csRequested, lastRequest, csPc, csSnap, fresh>>
  BY <1>1, <1>2
<1> DEFINE still == appendPc' # "idle"
<1>4. still
  BY DEF CsAppend
<1> HIDE DEF still
<1>5. csEntries' \in 0..MaxCsEntries /\ csCursor' \in 0..csEntries'
  BY <1>3, CosmosBounds
<1>6. CsTypeOK' /\ CsMoreTypes'
  BY <1>5 DEF CsTypeOK, CsMoreTypes, CsAppend, csCheckpoint, csItemVars, csWakeVars, csLaneVars
<1>7. ASSUME NEW g \in CsHosts PROVE RunHolds(g)'
  <2>1. RunHolds(g) /\ csSnap[g].end \in Nat
    BY DEF RunsHold, CsMoreTypes
  <2>2. ~LastWakeRead(g)'
    BY <1>4 DEF LastWakeRead, still
  <2>3. csSnap[g].end <= csEntries => csSnap[g].end <= csEntries'
    BY <1>3, <2>1
  <2> QED
    BY <1>3, <2>1, <2>2, <2>3 DEF RunHolds
<1>8. RunsHold' /\ CsWakeKept'
  BY <1>4, <1>7 DEF RunsHold, CsWakeKept, still
<1> QED
  BY <1>3, <1>6, <1>8, AsideStepKeeps DEF CsAppend

\* The wake is read, to be requested.
LEMMA ReadWakeToRequestKeeps ==
    ASSUME CsInvariant, CsReadWakeToRequest PROVE CsInvariant'
<1> USE DEF CsInvariant
<1>1. {WakeDoc} \in SUBSET (0..WakeDoc)
  BY CosmosDocuments
<1>2. /\ fresh' \in [Clients -> SUBSET (0..WakeDoc)]
      /\ fresh'[CsAppender] = fresh[CsAppender] \cup {WakeDoc}
      /\ \A b \in Clients \ {CsAppender} : fresh'[b] = fresh[b]
  BY <1>1, CsReads, HostsAreClients DEF CsReadWakeToRequest
<1>3. /\ appendPc = "read wake" /\ appendPc' = "write wake"
      /\ UNCHANGED <<csEntries, csCursor, csRequested, lastRequest, csPc, csSnap>>
  BY DEF CsReadWakeToRequest, csCheckpoint, csWakeVars
<1>4. CsTypeOK' /\ CsMoreTypes'
  BY <1>2 DEF CsTypeOK, CsMoreTypes, CsReadWakeToRequest, csCheckpoint, csItemVars,
              csWakeVars, csLaneVars
<1>5. ASSUME NEW g \in CsHosts PROVE RunHolds(g)'
  <2>1. RunHolds(g) /\ ~LastWakeRead(g)' /\ (StateDoc \in fresh'[g] => StateDoc \in fresh[g])
    BY <1>2, <1>3, CosmosDocuments, HostsAreClients DEF RunsHold, LastWakeRead
  <2> QED
    BY <1>3, <2>1 DEF RunHolds
<1>6. RunsHold' /\ CsWakeKept'
  BY <1>3, <1>5 DEF RunsHold, CsWakeKept
<1>7. \A g \in CsHosts, e \in CsEntries : e \in fresh'[g] => e \in fresh[g]
  BY <1>2, CosmosDocuments, HostsAreClients
<1> QED
  BY <1>4, <1>6, <1>7, AsideStepKeeps DEF CsReadWakeToRequest

\* The wake is requested, if nobody wrote it since.
LEMMA RequestKeeps == ASSUME CsInvariant, CsRequest PROVE CsInvariant'
<1> USE DEF CsInvariant
<1>1. UNCHANGED <<csEntries, csCursor, csProcessed, csPc, csSnap>>
  BY DEF CsRequest, csCheckpoint
<1> DEFINE still == appendPc' # "idle" /\ UNCHANGED <<csRequested, lastRequest>>
           refused == lastRequest' = "refused" /\ UNCHANGED csRequested
           written == \E now \in CsClock :
                          /\ csRequested' = Stamp(now)
                          /\ lastRequest' = IF SeenByRun(Stamp(now)) THEN "seen" ELSE "news"
<1>2. still \/ refused \/ written
  BY DEF CsRequest
<1>3. /\ fresh' \in [Clients -> SUBSET (0..WakeDoc)]
      /\ \A b \in Clients : fresh'[b] \subseteq fresh[b]
  BY CsWrites DEF CsRequest, CsTypeOK
<1>4. csRequested \in Nat /\ csProcessed \in Nat /\ lastRequest \in {"news", "seen", "refused"}
  BY DEF CsTypeOK
<1> HIDE DEF CsInvariant
<1>5. written => /\ csRequested' \in Nat /\ csRequested' > csProcessed
                 /\ lastRequest' \in {"news", "seen"}
                 /\ lastRequest' = "news" => \A g \in CsHosts : ~(csRequested' <= csSnap[g].wake)
  BY <1>4, CosmosWakes DEF Stamp, SeenByRun
<1> HIDE DEF still, refused, written
<1>6. csRequested' \in Nat /\ lastRequest' \in {"news", "seen", "refused"}
  BY <1>2, <1>4, <1>5 DEF still, refused
<1>7. wakeTried' \in [Clients -> 0..(WakeTries - 1)]
  BY TriesBounded, HostsAreClients DEF CsRequest
<1>8. CsTypeOK' /\ CsMoreTypes'
  BY <1>3, <1>6, <1>7 DEF CsInvariant, CsTypeOK, CsMoreTypes, CsRequest, csCheckpoint, csItemVars,
                          csLaneVars
<1>9. ASSUME NEW g \in CsHosts PROVE RunHolds(g)'
  <2>1. /\ RunHolds(g) /\ csSnap[g].wake \in Nat
        /\ StateDoc \in fresh'[g] => StateDoc \in fresh[g]
    BY <1>3, HostsAreClients DEF CsInvariant, RunsHold, CsMoreTypes
  <2>2. ~LastWakeRead(g)'
    <3>1. CASE written /\ lastRequest' = "news"
      BY <1>1, <1>5, <2>1, <3>1 DEF LastWakeRead
    <3>2. CASE still \/ lastRequest' # "news"
      BY <3>2 DEF LastWakeRead, still
    <3> QED
      BY <1>2, <3>1, <3>2 DEF refused
  <2> QED
    BY <1>1, <2>1, <2>2 DEF RunHolds
<1>10. CsWakeKept'
  <2>1. CASE written
    BY <1>1, <1>5, <2>1 DEF CsWakeKept
  <2>2. CASE still \/ refused
    BY <2>2 DEF CsWakeKept, still, refused
  <2> QED
    BY <1>2, <2>1, <2>2
<1>11. RunsHold'
  BY <1>9 DEF RunsHold
<1>12. UNCHANGED <<csCheckpoint, csItemVars, csLaneVars>>
  BY DEF CsRequest
<1> QED
  BY <1>3, <1>8, <1>10, <1>11, <1>12, AsideStepKeeps, HostsAreClients

-------------------------------------------------------------------------------
\* A step of a lane: no other lane's document is written behind its back.
LEMMA LaneStepKeeps ==
    ASSUME CsInvariant, NEW h \in CsHosts, LaneUnchanged,
           CsTypeOK', CsMoreTypes', LaneHolds(h)',
           \A g \in CsHosts : StateDoc \in fresh'[g] => StateDoc \in fresh[g],
           \A g \in CsHosts \ {h} :
               lanePc'[g] = lanePc[g] /\ laneItem'[g] = laneItem[g],
           \A g \in CsHosts \ {h}, e \in CsEntries : e \in fresh'[g] =>
               /\ e \in fresh[g]
               /\ itemState'[e] = itemState[e] /\ itemHolder'[e] = itemHolder[e],
           \A e \in CsEntries : itemState[e] = "none" => itemState'[e] = "none"
    PROVE  CsInvariant'
<1> USE DEF CsInvariant
<1>1. UNCHANGED <<csEntries, csCursor, csQueued, csRequested, csProcessed, csPc, csSnap, appendPc, lastRequest>>
  BY DEF LaneUnchanged, csCheckpoint, csWakeVars
<1>2. RunsHold'
  BY <1>1, RunKept DEF RunsHold
<1>3. LanesHold'
  BY LaneKept DEF LanesHold
<1>4. NotYetQueued' /\ CheckpointMatchesEffects' /\ CsWakeKept'
  BY <1>1 DEF NotYetQueued, CheckpointMatchesEffects, CsWakeKept
<1> QED
  BY <1>2, <1>3, <1>4

LEMMA LaneGoes ==
    ASSUME CsInvariant, NEW h \in CsHosts, NEW label \in LaneLabels, LaneGoto(h, label)
    PROVE  /\ lanePc' \in [CsHosts -> LaneLabels] /\ lanePc'[h] = label
           /\ \A g \in CsHosts \ {h} : lanePc'[g] = lanePc[g]
BY DEF CsInvariant, CsMoreTypes, LaneGoto

LEMMA LaneReturns ==
    ASSUME CsInvariant, NEW h \in CsHosts, LaneReturn(h)
    PROVE  /\ lanePc' \in [CsHosts -> LaneLabels] /\ lanePc'[h] = "idle"
           /\ \A g \in CsHosts \ {h} : lanePc'[g] = lanePc[g]
           /\ laneItem' \in [CsHosts -> 0..MaxCsEntries]
           /\ \A g \in CsHosts \ {h} : laneItem'[g] = laneItem[g]
<1>1. "idle" \in LaneLabels /\ LaneGoto(h, "idle") /\ laneItem' = [laneItem EXCEPT ![h] = 0]
  BY DEF LaneLabels, LaneReturn
<1>2. 0 \in 0..MaxCsEntries
  BY CosmosBounds
<1>3. laneItem' \in [CsHosts -> 0..MaxCsEntries] /\ \A g \in CsHosts \ {h} : laneItem'[g] = laneItem[g]
  BY <1>1, <1>2 DEF CsInvariant, CsMoreTypes
<1> QED
  BY <1>1, <1>3, LaneGoes

LEMMA LaneTypes ==
    ASSUME CsInvariant, LaneUnchanged, csFaults' \in 0..MaxCsFaults,
           lanePc' \in [CsHosts -> LaneLabels], laneItem' \in [CsHosts -> 0..MaxCsEntries],
           itemState' \in [CsEntries -> CsItemStates],
           itemHolder' \in [CsEntries -> CsHosts \cup {NoClient}],
           fresh' \in [Clients -> SUBSET (0..WakeDoc)]
    PROVE  CsTypeOK' /\ CsMoreTypes'
BY DEF CsInvariant, CsTypeOK, CsMoreTypes, LaneUnchanged, csCheckpoint, csWakeVars, CsItemStates

\* A lane queries for an effect to lease.
LEMMA QueryKeeps ==
    ASSUME CsInvariant, NEW h \in CsHosts, CsQuery(h) PROVE CsInvariant'
<1> USE DEF CsInvariant
<1>1. PICK e \in CsEntries :
        /\ itemState[e] \in {"active", "leased"}
        /\ laneItem' = [laneItem EXCEPT ![h] = e]
        /\ Reads(h, {e})
  BY DEF CsQuery, CsAtRest
<1>2. /\ lanePc' \in [CsHosts -> LaneLabels] /\ lanePc'[h] = "claim"
      /\ \A g \in CsHosts \ {h} : lanePc'[g] = lanePc[g]
  BY LaneGoes DEF CsQuery, CsAtRest, LaneLabels
<1>3. /\ laneItem' \in [CsHosts -> 0..MaxCsEntries] /\ laneItem'[h] = e
      /\ \A g \in CsHosts \ {h} : laneItem'[g] = laneItem[g]
  BY <1>1, CosmosDocuments DEF CsMoreTypes
<1>4. {e} \in SUBSET (0..WakeDoc)
  BY CosmosDocuments
<1>5. /\ fresh' \in [Clients -> SUBSET (0..WakeDoc)]
      /\ fresh'[h] = fresh[h] \cup {e}
      /\ \A b \in Clients \ {h} : fresh'[b] = fresh[b]
  BY <1>1, <1>4, CsReads, HostsAreClients
<1>6. UNCHANGED <<itemState, itemHolder, csFaults>>
  BY DEF CsQuery, CsAtRest, csItemVars
<1>7. CsTypeOK' /\ CsMoreTypes'
  BY <1>2, <1>3, <1>5, <1>6, LaneTypes DEF CsTypeOK, CsItemStates, CsQuery, CsAtRest
<1>8. LaneHolds(h)'
  BY <1>1, <1>2, <1>3, <1>6 DEF LaneHolds
<1>9. /\ \A g \in CsHosts \ {h} : fresh'[g] = fresh[g]
      /\ \A g \in CsHosts : StateDoc \in fresh'[g] => StateDoc \in fresh[g]
  BY <1>5, CosmosDocuments, HostsAreClients
<1> QED
  BY <1>2, <1>3, <1>6, <1>7, <1>8, <1>9, LaneStepKeeps DEF CsQuery, CsAtRest

\* It leases the effect as it was queried.
LEMMA ClaimItemKeeps ==
    ASSUME CsInvariant, NEW h \in CsHosts, CsClaimItem(h) PROVE CsInvariant'
<1> USE DEF CsInvariant
<1>1. PICK e \in CsEntries : e = laneItem[h]
  BY DEF LanesHold, LaneHolds, CsClaimItem
<1>2. CASE IfMatch(h, {e})
  <2>1. /\ lanePc' \in [CsHosts -> LaneLabels] /\ lanePc'[h] = "execute"
        /\ \A g \in CsHosts \ {h} : lanePc'[g] = lanePc[g]
    BY <1>1, <1>2, LaneGoes DEF CsClaimItem, LaneLabels
  <2>2. /\ fresh' \in [Clients -> SUBSET (0..WakeDoc)]
        /\ \A b \in Clients : fresh'[b] = fresh[b] \ {e}
    BY <1>1, <1>2, CsWrites DEF CsClaimItem
  <2>3. /\ itemState' = [itemState EXCEPT ![e] = "leased"]
        /\ itemHolder' = [itemHolder EXCEPT ![e] = h]
        /\ UNCHANGED <<laneItem, csFaults>>
    BY <1>1, <1>2 DEF CsClaimItem
  <2>4. /\ itemState' \in [CsEntries -> CsItemStates]
        /\ itemHolder' \in [CsEntries -> CsHosts \cup {NoClient}]
    BY <2>3 DEF CsTypeOK, CsItemStates
  <2>5. CsTypeOK' /\ CsMoreTypes'
    BY <2>1, <2>2, <2>3, <2>4, LaneTypes DEF CsTypeOK, CsMoreTypes, CsClaimItem
  <2>6. LaneHolds(h)'
    BY <1>1, <2>1, <2>3 DEF LaneHolds
  <2>7. itemState[e] \in {"active", "leased"}
    BY <1>1, <1>2 DEF LanesHold, LaneHolds, CsClaimItem, IfMatch
  <2>8. \A f \in CsEntries : itemState[f] = "none" => itemState'[f] = "none"
    BY <2>3, <2>7 DEF CsTypeOK
  <2>9. \A g \in CsHosts \ {h}, f \in CsEntries : f \in fresh'[g] =>
            /\ f \in fresh[g]
            /\ itemState'[f] = itemState[f] /\ itemHolder'[f] = itemHolder[f]
    BY <2>2, <2>3, HostsAreClients DEF CsTypeOK
  <2>10. \A g \in CsHosts : StateDoc \in fresh'[g] => StateDoc \in fresh[g]
    BY <2>2, HostsAreClients
  <2> QED
    BY <2>1, <2>3, <2>5, <2>6, <2>8, <2>9, <2>10, LaneStepKeeps DEF CsClaimItem
<1>3. CASE ~IfMatch(h, {e})
  <2>1. /\ lanePc' \in [CsHosts -> LaneLabels] /\ lanePc'[h] = "idle"
        /\ \A g \in CsHosts \ {h} : lanePc'[g] = lanePc[g]
        /\ laneItem' \in [CsHosts -> 0..MaxCsEntries]
        /\ \A g \in CsHosts \ {h} : laneItem'[g] = laneItem[g]
    BY <1>1, <1>3, LaneReturns DEF CsClaimItem
  <2>2. UNCHANGED <<itemState, itemHolder, fresh, csFaults>>
    BY <1>1, <1>3 DEF CsClaimItem, csItemVars
  <2>3. CsTypeOK' /\ CsMoreTypes'
    BY <2>1, <2>2, LaneTypes DEF CsTypeOK, CsMoreTypes, CsClaimItem, CsItemStates
  <2>4. LaneHolds(h)'
    BY <2>1 DEF LaneHolds
  <2> QED
    BY <2>1, <2>2, <2>3, <2>4, LaneStepKeeps DEF CsClaimItem
<1> QED
  BY <1>2, <1>3

\* The lease of an effect runs out without a write.
LEMMA ItemExpiresKeeps == ASSUME CsInvariant, CsItemExpires PROVE CsInvariant'
<1> USE DEF CsInvariant
<1>1. UNCHANGED <<itemState, itemHolder, fresh, lanePc, laneItem>> /\ LaneUnchanged
  BY DEF CsItemExpires, csLaneVars
<1>2. csFaults' \in 0..MaxCsFaults
  BY FaultsBounded DEF CsItemExpires
<1>3. CsTypeOK' /\ CsMoreTypes'
  BY <1>1, <1>2, LaneTypes DEF CsTypeOK, CsMoreTypes, CsItemStates
<1>4. UNCHANGED <<csEntries, csCursor, csQueued, csRequested, csProcessed, csPc, csSnap, appendPc, lastRequest>>
  BY <1>1 DEF LaneUnchanged, csCheckpoint, csWakeVars
<1>5. RunsHold'
  BY <1>1, <1>4, RunKept DEF RunsHold
<1>6. LanesHold'
  BY <1>1, LaneKept DEF LanesHold
<1>7. NotYetQueued' /\ CheckpointMatchesEffects' /\ CsWakeKept'
  BY <1>1, <1>4 DEF NotYetQueued, CheckpointMatchesEffects, CsWakeKept
<1> QED
  BY <1>3, <1>5, <1>6, <1>7

\* A lane reads the effect it has executed.
LEMMA ReadItemKeeps ==
    ASSUME CsInvariant, NEW h \in CsHosts, CsReadItem(h) PROVE CsInvariant'
<1> USE DEF CsInvariant
<1>1. PICK e \in CsEntries : e = laneItem[h]
  BY DEF LanesHold, LaneHolds, CsReadItem
<1>2. UNCHANGED <<itemState, itemHolder, csFaults>>
  BY DEF CsReadItem, csItemVars
<1>3. CASE OwnLease(h)
  <2>1. /\ lanePc' \in [CsHosts -> LaneLabels] /\ lanePc'[h] = "settle"
        /\ \A g \in CsHosts \ {h} : lanePc'[g] = lanePc[g]
        /\ laneItem' = laneItem
    BY <1>3, LaneGoes DEF CsReadItem, LaneLabels
  <2>2. {e} \in SUBSET (0..WakeDoc)
    BY CosmosDocuments
  <2>3. /\ fresh' \in [Clients -> SUBSET (0..WakeDoc)]
        /\ fresh'[h] = fresh[h] \cup {e}
        /\ \A b \in Clients \ {h} : fresh'[b] = fresh[b]
    BY <1>1, <1>3, <2>2, CsReads, HostsAreClients DEF CsReadItem
  <2>4. CsTypeOK' /\ CsMoreTypes'
    BY <1>2, <2>1, <2>3, LaneTypes DEF CsTypeOK, CsMoreTypes, CsReadItem, CsItemStates
  <2>5. LaneHolds(h)'
    BY <1>1, <1>2, <1>3, <2>1 DEF LaneHolds, OwnLease
  <2>6. /\ \A g \in CsHosts \ {h} : fresh'[g] = fresh[g]
        /\ \A g \in CsHosts : StateDoc \in fresh'[g] => StateDoc \in fresh[g]
    BY <2>3, CosmosDocuments, HostsAreClients
  <2> QED
    BY <1>2, <2>1, <2>4, <2>5, <2>6, LaneStepKeeps DEF CsReadItem
<1>4. CASE ~OwnLease(h)
  <2>1. /\ lanePc' \in [CsHosts -> LaneLabels] /\ lanePc'[h] = "idle"
        /\ \A g \in CsHosts \ {h} : lanePc'[g] = lanePc[g]
        /\ laneItem' \in [CsHosts -> 0..MaxCsEntries]
        /\ \A g \in CsHosts \ {h} : laneItem'[g] = laneItem[g]
    BY <1>4, LaneReturns DEF CsReadItem
  <2>2. UNCHANGED fresh
    BY <1>4 DEF CsReadItem
  <2>3. CsTypeOK' /\ CsMoreTypes'
    BY <1>2, <2>1, <2>2, LaneTypes DEF CsTypeOK, CsMoreTypes, CsReadItem, CsItemStates
  <2>4. LaneHolds(h)'
    BY <2>1 DEF LaneHolds
  <2> QED
    BY <1>2, <2>1, <2>2, <2>3, <2>4, LaneStepKeeps DEF CsReadItem
<1> QED
  BY <1>3, <1>4

\* It settles the effect as it was read.
LEMMA SettleKeeps ==
    ASSUME CsInvariant, NEW h \in CsHosts, CsSettle(h) PROVE CsInvariant'
<1> USE DEF CsInvariant
<1>1. PICK e \in CsEntries : e = laneItem[h]
  BY DEF LanesHold, LaneHolds, CsSettle
<1>2. /\ lanePc' \in [CsHosts -> LaneLabels] /\ lanePc'[h] = "idle"
      /\ \A g \in CsHosts \ {h} : lanePc'[g] = lanePc[g]
      /\ laneItem' \in [CsHosts -> 0..MaxCsEntries]
      /\ \A g \in CsHosts \ {h} : laneItem'[g] = laneItem[g]
  BY LaneReturns DEF CsSettle
<1>3. LaneHolds(h)'
  BY <1>2 DEF LaneHolds
<1>4. CASE IfMatch(h, {e})
  <2>1. /\ fresh' \in [Clients -> SUBSET (0..WakeDoc)]
        /\ \A b \in Clients : fresh'[b] = fresh[b] \ {e}
    BY <1>1, <1>4, CsWrites DEF CsSettle
  <2>2. PICK next \in {"done", "dead", "active"} : itemState' = [itemState EXCEPT ![e] = next]
    BY <1>1, <1>4 DEF CsSettle
  <2>3. itemHolder' = [itemHolder EXCEPT ![e] = NoClient] /\ UNCHANGED csFaults
    BY <1>1, <1>4 DEF CsSettle
  <2>4. /\ itemState' \in [CsEntries -> CsItemStates]
        /\ itemHolder' \in [CsEntries -> CsHosts \cup {NoClient}]
    BY <2>2, <2>3 DEF CsTypeOK, CsItemStates
  <2>5. CsTypeOK' /\ CsMoreTypes'
    BY <1>2, <2>1, <2>3, <2>4, LaneTypes DEF CsTypeOK, CsMoreTypes, CsSettle
  <2>6. itemState[e] = "leased"
    BY <1>1, <1>4 DEF LanesHold, LaneHolds, CsSettle, IfMatch, OwnLease
  <2>7. \A f \in CsEntries : itemState[f] = "none" => itemState'[f] = "none"
    BY <2>2, <2>6 DEF CsTypeOK
  <2>8. \A g \in CsHosts \ {h}, f \in CsEntries : f \in fresh'[g] =>
            /\ f \in fresh[g]
            /\ itemState'[f] = itemState[f] /\ itemHolder'[f] = itemHolder[f]
    BY <2>1, <2>2, <2>3, HostsAreClients DEF CsTypeOK
  <2>9. \A g \in CsHosts : StateDoc \in fresh'[g] => StateDoc \in fresh[g]
    BY <2>1, HostsAreClients
  <2> QED
    BY <1>2, <1>3, <2>3, <2>5, <2>7, <2>8, <2>9, LaneStepKeeps DEF CsSettle
<1>5. CASE ~IfMatch(h, {e})
  <2>1. UNCHANGED <<itemState, itemHolder, fresh, csFaults>>
    BY <1>1, <1>5 DEF CsSettle, csItemVars
  <2>2. CsTypeOK' /\ CsMoreTypes'
    BY <1>2, <2>1, LaneTypes DEF CsTypeOK, CsMoreTypes, CsSettle, CsItemStates
  <2> QED
    BY <1>2, <1>3, <2>1, <2>2, LaneStepKeeps DEF CsSettle
<1> QED
  BY <1>4, <1>5

\* Every step of the runtime keeps its invariant.
LEMMA CosmosStep == CsInvariant /\ [CsNext]_csVars => CsInvariant'
<1> SUFFICES ASSUME CsInvariant, [CsNext]_csVars PROVE CsInvariant'
  OBVIOUS
<1>1. CASE CsNext
  BY <1>1, AppendKeeps, ReadWakeToRequestKeeps, RequestKeeps, LeaseExpiresKeeps,
     ItemExpiresKeeps, ReadWakeKeeps, ReadLockKeeps, ClaimKeeps, ReadStateKeeps, AbortKeeps,
     CommitKeeps, BatchKeeps, ReadWakeToMarkKeeps, MarkKeeps, QueryKeeps, ClaimItemKeeps,
     ReadItemKeeps, SettleKeeps DEF CsNext
<1>2. CASE UNCHANGED csVars
  <2> USE <1>2 DEF csVars, csCheckpoint, csItemVars, csWakeVars, csLaneVars
  <2>1. CsTypeOK' /\ CsMoreTypes'
    BY DEF CsInvariant, CsTypeOK, CsMoreTypes
  <2>2. RunsHold'
    BY RunKept DEF CsInvariant, RunsHold
  <2>3. CsWakeKept'
    BY DEF CsInvariant, CsWakeKept
  <2> QED
    BY <2>1, <2>2, <2>3, AsideStepKeeps
<1> QED
  BY <1>1, <1>2

\* Only the batch of a run writes the cursor, and to the end of what it read.
LEMMA CursorStep == CsInvariant /\ [CsNext]_csVars => CsCursorForward
<1> SUFFICES ASSUME CsInvariant, [CsNext]_csVars PROVE CsCursorForward
  OBVIOUS
<1>1. csCursor \in Nat
  BY CosmosBounds DEF CsInvariant, CsTypeOK
<1>2. CASE \E h \in CsHosts : CsBatch(h) /\ IfMatch(h, {LockDoc, StateDoc})
  <2>1. PICK h \in CsHosts : CsBatch(h) /\ IfMatch(h, {LockDoc, StateDoc})
    BY <1>2
  <2>2. csCursor <= csSnap[h].end /\ csCursor' = csSnap[h].end /\ csSnap[h].end \in Nat
    BY <2>1, BatchTakes DEF CsInvariant, CsMoreTypes
  <2> QED
    BY <1>1, <2>2 DEF CsCursorForward
<1>3. CASE csCursor' = csCursor
  BY <1>1, <1>3 DEF CsCursorForward
<1> QED
  BY <1>2, <1>3 DEF CsNext, csVars, csCheckpoint, LaneUnchanged, CsAppend, CsReadWakeToRequest,
     CsRequest, CsLeaseExpires, CsItemExpires, CsReadWake, CsReadLock, CsClaim, CsReadState,
     CsAbort, CsCommit, CsBatch, CsReadWakeToMark, CsMark, CsQuery, CsClaimItem, CsReadItem,
     CsSettle

(***************************************************************************)
(* The state of an effect document is written by a batch that found none,  *)
(* by a claim of one that is not settled, and by the holder's settlement.  *)
(***************************************************************************)
LEMMA SettlementStep == CsInvariant /\ [CsNext]_csVars => EffectSettledByHolder
<1> SUFFICES ASSUME CsInvariant, [CsNext]_csVars, NEW e \in CsEntries
             PROVE  /\ itemState[e] = "leased" /\ itemState'[e] # "leased" =>
                           \E h \in CsHosts : /\ itemHolder[e] = h /\ lanePc[h] = "settle"
                                              /\ laneItem[h] = e /\ lanePc'[h] = "idle"
                    /\ itemState[e] \in {"done", "dead"} => itemState'[e] = itemState[e]
  BY DEF EffectSettledByHolder
<1> USE DEF CsInvariant
<1>1. CASE itemState' = itemState
  BY <1>1
<1>2. ASSUME NEW h \in CsHosts, CsBatch(h), IfMatch(h, {LockDoc, StateDoc})
      PROVE  itemState[e] # "none" => itemState'[e] = itemState[e]
  BY <1>2, BatchTakes
<1>3. ASSUME NEW h \in CsHosts, CsClaimItem(h), IfMatch(h, {laneItem[h]})
      PROVE  /\ itemState[e] = "leased" => itemState'[e] = "leased"
             /\ itemState[e] \in {"done", "dead"} => itemState'[e] = itemState[e]
  <2>1. /\ itemState[laneItem[h]] \in {"active", "leased"}
        /\ itemState' = [itemState EXCEPT ![laneItem[h]] = "leased"]
    BY <1>3 DEF LanesHold, LaneHolds, CsClaimItem, IfMatch
  <2> QED
    BY <2>1 DEF CsTypeOK
<1>4. ASSUME NEW h \in CsHosts, CsSettle(h), IfMatch(h, {laneItem[h]})
      PROVE  \/ itemState'[e] = itemState[e]
             \/ /\ itemState[e] = "leased" /\ itemHolder[e] = h /\ lanePc[h] = "settle"
                /\ laneItem[h] = e /\ lanePc'[h] = "idle"
  <2>1. itemState[laneItem[h]] = "leased" /\ itemHolder[laneItem[h]] = h
    BY <1>4 DEF LanesHold, LaneHolds, CsSettle, IfMatch, OwnLease
  <2>2. PICK next : itemState' = [itemState EXCEPT ![laneItem[h]] = next]
    BY <1>4 DEF CsSettle
  <2>3. lanePc[h] = "settle" /\ lanePc'[h] = "idle"
    BY <1>4 DEF CsSettle, LaneReturn, LaneGoto, CsMoreTypes
  <2> QED
    BY <2>1, <2>2, <2>3 DEF CsTypeOK
<1>5. \/ itemState' = itemState
      \/ \E h \in CsHosts : CsBatch(h) /\ IfMatch(h, {LockDoc, StateDoc})
      \/ \E h \in CsHosts : CsClaimItem(h) /\ IfMatch(h, {laneItem[h]})
      \/ \E h \in CsHosts : CsSettle(h) /\ IfMatch(h, {laneItem[h]})
  BY DEF CsNext, csVars, csItemVars, CsAppend, CsReadWakeToRequest,
     CsRequest, CsLeaseExpires, CsItemExpires, CsReadWake, CsReadLock, CsClaim, CsReadState,
     CsAbort, CsCommit, CsBatch, CsReadWakeToMark, CsMark, CsQuery, CsClaimItem, CsReadItem,
     CsSettle
<1> QED
  BY <1>1, <1>2, <1>3, <1>4, <1>5

-------------------------------------------------------------------------------
(***************************************************************************)
(* A host's provider steps alone, so each keeps its own invariant.         *)
(***************************************************************************)
ProvidersVars == <<fsVars, csVars, libVars, provider>>

ProviderNames == {"filesystem", "cosmos", "cosmos library"}

\* A step of the host is a step of its provider or leaves it alone.
LEMMA FilesystemPartStep ==
    [ProvidersNext]_ProvidersVars => [FsNext]_fsVars
BY DEF ProvidersNext, ProvidersVars

LEMMA CosmosPartStep ==
    [ProvidersNext]_ProvidersVars => [CsNext]_csVars
BY DEF ProvidersNext, ProvidersVars

LEMMA LibraryPartStep ==
    [ProvidersNext]_ProvidersVars => [LibNext]_libVars
BY DEF ProvidersNext, ProvidersVars

(***************************************************************************)
(* The runtime on a Cosmos partition: between any two requests, whatever   *)
(* their interleaving, leases that run out and batches that fail, every    *)
(* entry the checkpoint has passed has its effect and no other entry has,  *)
(* and an entry that is not folded has a wake or will get one, unless the  *)
(* last request gave up or took a stamp that a run had captured already.   *)
(***************************************************************************)
THEOREM CosmosRuntimeSafe == ProvidersSpec => []CosmosSafe
<1>1. ProvidersInit => CsInvariant
  BY CosmosInitial DEF ProvidersInit
<1>2. CsInvariant /\ [ProvidersNext]_ProvidersVars => CsInvariant'
  BY CosmosPartStep, CosmosStep
<1>3. CsInvariant => CosmosSafe
  BY DEF CsInvariant, CosmosSafe, CsSafe
<1> QED
  BY <1>1, <1>2, <1>3, PTL DEF ProvidersSpec, ProvidersVars

(***************************************************************************)
(* The queue library on Cosmos: whatever its callers race for, a dedup     *)
(* document stands for exactly one live message, and no two messages share *)
(* a place in their lane.                                                  *)
(***************************************************************************)
THEOREM CosmosLibrarySafe == ProvidersSpec => []LibrarySafe
<1>1. ProvidersInit => LibInvariant
  BY LibInitial DEF ProvidersInit
<1>2. LibInvariant /\ [ProvidersNext]_ProvidersVars => LibInvariant'
  BY LibraryPartStep, LibStep
<1>3. LibInvariant => LibrarySafe
  BY LibSafeFromInvariant DEF LibrarySafe
<1> QED
  BY <1>1, <1>2, <1>3, PTL DEF ProvidersSpec, ProvidersVars

(***************************************************************************)
(* The runtime in a shared directory, whatever the clocks of its processes *)
(* show: between any two file operations, whatever crashes and lost        *)
(* leases, a message is in one place, what was folded is queued once its   *)
(* commit is over or has broken off, and, unless a commit outlived its     *)
(* lease, no effect is queued twice and no wake is lost that was news.     *)
(***************************************************************************)
THEOREM FilesystemIsSafe == ProvidersSpec => []FilesystemSafe
<1>1. ProvidersInit => FsInvariant
  BY FsInitial DEF ProvidersInit
<1>2. FsInvariant /\ [ProvidersNext]_ProvidersVars => FsInvariant'
  BY FilesystemPartStep, FsStep
<1>3. FsInvariant => FilesystemSafe
  BY FsSafeFromInvariant DEF FilesystemSafe
<1> QED
  BY <1>1, <1>2, <1>3, PTL DEF ProvidersSpec, ProvidersVars

\* The action of LeasesHonoured, and the invariant it follows from.
LeaseStep ==
    CASE provider = "filesystem" -> DoneIsFinal
      [] provider = "cosmos" -> CsCursorForward /\ EffectSettledByHolder
      [] provider = "cosmos library" -> RelayNotStolen

LeaseInvariant ==
    provider \in ProviderNames /\ FsInvariant /\ CsInvariant /\ LibInvariant

(***************************************************************************)
(* Who holds a lease decides, at every step: an acknowledged message of    *)
(* the directory is not leased again, the Cosmos cursor never goes back,   *)
(* an effect is settled by its holder only and once, and no relay lock     *)
(* changes hands before its tenure ends.                                   *)
(***************************************************************************)
THEOREM LeasesSafe == ProvidersSpec => LeasesHonoured
<1>1. ProvidersInit => LeaseInvariant
  BY FsInitial, CosmosInitial, LibInitial, KnownProviders DEF ProvidersInit, LeaseInvariant, ProviderNames
<1>2. LeaseInvariant /\ [ProvidersNext]_ProvidersVars => LeaseInvariant'
  <2>1. [ProvidersNext]_ProvidersVars => provider' = provider
    BY DEF ProvidersNext, ProvidersVars
  <2> QED
    BY <2>1, FilesystemPartStep, CosmosPartStep, LibraryPartStep, FsStep, CosmosStep, LibStep
    DEF LeaseInvariant
<1>3. LeaseInvariant /\ [ProvidersNext]_ProvidersVars => LeaseStep
  <2>1. ASSUME LeaseInvariant, [ProvidersNext]_ProvidersVars
        PROVE  /\ DoneIsFinal /\ CsCursorForward /\ EffectSettledByHolder /\ RelayNotStolen
               /\ provider \in ProviderNames
    BY <2>1, FilesystemPartStep, CosmosPartStep, LibraryPartStep, DoneFinalStep, CursorStep,
       SettlementStep, RelayStep DEF LeaseInvariant
  <2> QED
    BY <2>1 DEF LeaseStep, ProviderNames
<1>4. ProvidersSpec => [][LeaseStep]_ProvidersVars
  BY <1>1, <1>2, <1>3, PTL DEF ProvidersSpec, ProvidersVars
<1> QED
  BY <1>4 DEF LeasesHonoured, LeaseStep, ProvidersVars
===============================================================================
