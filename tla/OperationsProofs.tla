--------------------------- MODULE OperationsProofs ---------------------------
(***************************************************************************)
(* What runs around the contract.                                          *)
(*                                                                         *)
(* The webhook server, for every number of events, handlers and faults.    *)
(* With the memory store no event is handed on twice in one run: an event  *)
(* is recorded in the step that hands it on, and only the end of the run   *)
(* forgets it.  With either store no event is overlooked: up to the stream *)
(* and the cursor, and up to every message a handler has, each event has   *)
(* been dealt with or is at work.                                          *)
(*                                                                         *)
(* The router and its scripts: a closed form of the ledgers that went to   *)
(* the canary gives its share for every length of a cycle and every        *)
(* weight; a rollback that goes by the file restores what the file was     *)
(* written to restore.                                                     *)
(***************************************************************************)
EXTENDS Webhook, Rollout, TLAPS

-----------------------------------------------------------------------------
(* The webhook server *)

\* Whatever was handed on in this run is in the memory store, which no handler
\* is about to add to.
Recorded ==
    store = "memory" =>
        /\ \A e \in Events : begun[e] <= 1 /\ (begun[e] = 1 => e \in seen)
        /\ \A h \in Handlers : handler[h].pc # "add"

\* Nothing more is expected of these events.
Settled == acknowledged \cup given_up \cup lost

\* The events that the store is right to hold, if they are not settled.
Delivering ==
    hung \cup {handler[h].event : h \in {g \in Handlers : handler[g].pc \in {"post", "save"}}}

\* A handler saves the cursor when its event has been delivered or given up.
Stored ==
    /\ seen \subseteq Settled \cup Delivering
    /\ \A h \in Handlers : handler[h].pc = "save" => handler[h].event \in acknowledged \cup given_up

KeptUpTo(n) == \A e \in Events : e <= n => e \in Settled \cup InHand

\* Wherever the stream may go on from, now or when a handler has saved its event
\* as the cursor, nothing before it is missing.
Reached ==
    /\ \A h \in Handlers : handler[h] # Idle => KeptUpTo(handler[h].event)
    /\ stream # NoEntry => KeptUpTo(stream)
    /\ cursor_file # NoEntry => KeptUpTo(cursor_file)

Inv == TypeOK /\ Recorded /\ Stored /\ Reached

LEMMA InitInv == Init => Inv
BY WebhookAssumption
DEF WebhookAssumption, Init, Inv, TypeOK, Recorded, Stored, Reached, Events, InFlight, Idle

LEMMA TwiceType == \A n \in 0..2 : Twice(n) \in 0..2 /\ (n = 0 => Twice(n) = 1)
BY DEF Twice

\* What the two sets of events at work hold, before and after a step.
LEMMA InHandIs ==
    /\ \A e : e \in InHand <=>
           e \in hung \/ \E h \in Handlers : handler[h] # Idle /\ handler[h].event = e
    /\ \A e : e \in InHand' <=>
           e \in hung' \/ \E h \in Handlers : handler'[h] # Idle /\ handler'[h].event = e
BY DEF InHand

LEMMA DeliveringIs ==
    /\ \A e : e \in Delivering <=>
           \/ e \in hung
           \/ \E h \in Handlers : handler[h].pc \in {"post", "save"} /\ handler[h].event = e
    /\ \A e : e \in Delivering' <=>
           \/ e \in hung'
           \/ \E h \in Handlers : handler'[h].pc \in {"post", "save"} /\ handler'[h].event = e
BY DEF Delivering

\* A step that drops no event, and takes up no new position, keeps what is reached.
LEMMA ReachedStays ==
    ASSUME Reached, Settled \cup InHand \subseteq (Settled \cup InHand)',
           \A h \in Handlers : handler'[h] # Idle =>
               handler[h] # Idle /\ handler'[h].event = handler[h].event,
           stream' \in {stream, NoEntry},
           cursor_file' = cursor_file \/ cursor_file' = EmptyFile \/ KeptUpTo(cursor_file')
    PROVE  Reached'
<1>1. \A n : KeptUpTo(n) => \A e \in Events : e <= n => e \in (Settled \cup InHand)'
  BY DEF KeptUpTo
<1>2. \A h \in Handlers : handler'[h] # Idle =>
          \A e \in Events : e <= handler'[h].event => e \in (Settled \cup InHand)'
  BY <1>1 DEF Reached
<1>3. stream' # NoEntry => \A e \in Events : e <= stream' => e \in (Settled \cup InHand)'
  BY <1>1 DEF Reached
<1>4. cursor_file' # NoEntry =>
          \A e \in Events : e <= cursor_file' => e \in (Settled \cup InHand)'
  <2>1. CASE cursor_file' = EmptyFile
    BY <2>1 DEF EmptyFile, Events
  <2>2. CASE cursor_file' = cursor_file \/ KeptUpTo(cursor_file')
    BY <2>2, <1>1 DEF Reached
  <2> QED
    BY <2>1, <2>2
<1> QED
  BY <1>2, <1>3, <1>4 DEF Reached, KeptUpTo, Events

-----------------------------------------------------------------------------
(* The webhook server: the handler's steps *)

LEMMA HandOnInv ==
    ASSUME Inv, NEW h \in Handlers, handler[h] \in InFlight, HandOn(h),
           store = "memory" => handler[h].event \notin seen
    PROVE  TypeOK' /\ Recorded'
<1> DEFINE e == handler[h].event
<1>1. e \in Events
  BY DEF InFlight
<1>2. begun' = [begun EXCEPT ![e] = Twice(@)]
  BY DEF HandOn
<1>3. begun' \in [Events -> 0..2]
  BY <1>1, <1>2, TwiceType DEF Inv, TypeOK
<1>4. handler' \in [Handlers -> InFlight \cup {Idle}]
  BY DEF HandOn, Inv, TypeOK, InFlight
<1>5. TypeOK'
  BY <1>1, <1>3, <1>4 DEF HandOn, handlerOnly, Inv, TypeOK
<1>6. ASSUME store' = "memory"
      PROVE  /\ \A x \in Events : begun'[x] <= 1 /\ (begun'[x] = 1 => x \in seen')
             /\ \A g \in Handlers : handler'[g].pc # "add"
  <2>1. store = "memory"
    BY <1>6 DEF HandOn
  <2>2. begun[e] = 0
    BY <1>1, <2>1 DEF Inv, TypeOK, Recorded
  <2>3. begun' = [begun EXCEPT ![e] = 1]
    BY <1>1, <1>2, <2>2, TwiceType DEF Inv, TypeOK
  <2>4. \A x \in Events : begun'[x] <= 1 /\ (begun'[x] = 1 => x \in seen')
    BY <1>1, <2>1, <2>3 DEF HandOn, Inv, TypeOK, Recorded
  <2>5. \A g \in Handlers : handler'[g].pc # "add"
    BY <2>1 DEF HandOn, Inv, TypeOK, Recorded, InFlight
  <2> QED
    BY <2>4, <2>5
<1> QED
  BY <1>5, <1>6 DEF Recorded

\* The event that is handed on becomes one of those being delivered.
LEMMA HandOnAccounted ==
    ASSUME Inv, NEW h \in Handlers, handler[h] \in InFlight, HandOn(h)
    PROVE  Stored' /\ Reached'
<1>1. /\ handler' = [handler EXCEPT ![h] = [handler[h] EXCEPT !.pc = "post"]]
      /\ handler'[h].pc = "post" /\ handler'[h].event = handler[h].event /\ handler'[h] # Idle
      /\ handler[h] # Idle
      /\ \A g \in Handlers : g # h => handler'[g] = handler[g]
  BY DEF HandOn, Inv, TypeOK, InFlight, Idle
<1>2. UNCHANGED <<hung, stream, cursor_file, acknowledged, given_up, lost>>
  BY DEF HandOn, handlerOnly
<1>3. \A e \in seen' : e \in (Settled \cup Delivering)'
  BY <1>1, <1>2, DeliveringIs DEF HandOn, Inv, Stored, Settled
<1>4. Stored'
  BY <1>1, <1>2, <1>3 DEF Inv, Stored
<1>5. Settled \cup InHand \subseteq (Settled \cup InHand)'
  BY <1>1, <1>2, InHandIs DEF Settled
<1>6. Reached'
  BY <1>1, <1>2, <1>5, ReachedStays DEF Inv
<1> QED
  BY <1>4, <1>6

\* A handler that ends leaves its event settled, or being delivered.
LEMMA EndAccounted ==
    ASSUME Inv, NEW h \in Handlers, handler[h] # Idle,
           handler' = [handler EXCEPT ![h] = Idle],
           handler[h].event \in (Settled \cup Delivering)',
           handler[h].pc \in {"post", "save"} => handler[h].event \in (Settled \cup hung)',
           hung \subseteq hung', Settled \subseteq Settled',
           acknowledged \subseteq acknowledged', given_up \subseteq given_up',
           seen' \subseteq seen \cup {handler[h].event},
           stream' = stream,
           cursor_file' = cursor_file \/ cursor_file' = EmptyFile \/ KeptUpTo(cursor_file')
    PROVE  Stored' /\ Reached'
<1>1. handler'[h] = Idle /\ \A g \in Handlers : g # h => handler'[g] = handler[g]
  BY DEF Inv, TypeOK
<1>2. \A e \in Settled \cup Delivering : e \in (Settled \cup Delivering)'
  BY <1>1, DeliveringIs
<1>3. \A e \in seen' : e \in (Settled \cup Delivering)'
  BY <1>2 DEF Inv, Stored
<1>4. \A g \in Handlers : handler'[g].pc = "save" =>
          handler'[g].event \in (acknowledged \cup given_up)'
  BY <1>1 DEF Inv, Stored, Idle
<1>5. \A e \in Delivering' : e \in InHand'
  BY DeliveringIs, InHandIs DEF Idle
<1>6. \A e \in Settled \cup InHand : e \in (Settled \cup InHand)'
  BY <1>1, <1>5, InHandIs
<1>7. Reached'
  BY <1>1, <1>6, ReachedStays DEF Inv
<1> QED
  BY <1>3, <1>4, <1>7 DEF Stored

LEMMA DeliverInv ==
    ASSUME WebhookAssumption, Inv, NEW h \in Handlers, handler[h] \in InFlight,
           NEW arrives \in BOOLEAN, NEW answered \in BOOLEAN,
           deliverWithRetry(h, arrives, answered)
    PROVE  Inv'
<1>1. /\ handler' \in [Handlers -> InFlight \cup {Idle}]
      /\ handler'[h] \in InFlight /\ handler'[h].pc \in {"post", "save"}
      /\ handler'[h].event = handler[h].event
      /\ handler'[h].pc = "save" => handler[h].event \in acknowledged' \cup given_up'
      /\ \A g \in Handlers : g # h => handler'[g] = handler[g]
  BY WebhookAssumption DEF deliverWithRetry, Retry, InFlight, Inv, TypeOK, WebhookAssumption
<1>2. arrived' \in [Events -> 0..2]
  BY TwiceType DEF deliverWithRetry, InFlight, Inv, TypeOK
<1>3. acknowledged' \cup given_up' \subseteq Events
  BY DEF deliverWithRetry, Retry, InFlight, Inv, TypeOK
<1>4. /\ acknowledged \subseteq acknowledged' /\ given_up \subseteq given_up'
      /\ UNCHANGED <<hung, stream, seen, store, cursor_file, lost>>
  BY DEF deliverWithRetry, Retry, handlerOnly, storeVars
<1>5. TypeOK'
  BY <1>1, <1>2, <1>3 DEF deliverWithRetry, handlerOnly, storeVars, Inv, TypeOK
<1>6. Recorded'
  BY <1>1, <1>4 DEF deliverWithRetry, Inv, Recorded
<1>7. \A e \in Settled \cup Delivering : e \in (Settled \cup Delivering)'
  BY <1>1, <1>4, DeliveringIs DEF Settled
<1>8. Stored'
  BY <1>1, <1>4, <1>7 DEF Inv, Stored
<1>9. /\ handler[h] # Idle /\ handler'[h] # Idle
      /\ \A e \in Settled \cup InHand : e \in (Settled \cup InHand)'
  BY <1>1, <1>4, InHandIs DEF Settled, InFlight, Idle
<1>10. Reached'
  BY <1>1, <1>4, <1>9, ReachedStays DEF Inv
<1> QED
  BY <1>5, <1>6, <1>8, <1>10 DEF Inv

LEMMA HandleInv ==
    ASSUME WebhookAssumption, Inv, NEW h \in Handlers, Handle(h)
    PROVE  Inv'
<1>0. handler[h] # Idle => handler[h] \in InFlight /\ handler[h].event \in Events
  BY DEF Inv, TypeOK, InFlight
<1>1. CASE CheckStore(h)
  <2>1. handler[h] \in InFlight
    BY <1>0, <1>1 DEF CheckStore, Idle
  <2>2. CASE store = "redis"
    <3>1. /\ handler' \in [Handlers -> InFlight \cup {Idle}]
          /\ handler[h] # Idle /\ handler'[h] # Idle
          /\ handler[h].pc = "has" /\ handler'[h].pc = "add"
          /\ handler'[h].event = handler[h].event
          /\ \A g \in Handlers : g # h => handler'[g] = handler[g]
      BY <1>1, <2>1, <2>2 DEF CheckStore, InFlight, Idle, Inv, TypeOK
    <3>2. UNCHANGED <<hung, stream, seen, store, cursor_file, acknowledged, given_up, lost, begun>>
      BY <1>1, <2>2 DEF CheckStore, handlerOnly, storeVars, historyVars
    <3>3. TypeOK' /\ Recorded'
      BY <1>1, <2>2, <3>1
      DEF CheckStore, handlerOnly, storeVars, historyVars, Inv, TypeOK, Recorded
    <3>4. \A e \in Settled \cup Delivering : e \in (Settled \cup Delivering)'
      BY <3>1, <3>2, DeliveringIs DEF Settled
    <3>5. Stored'
      BY <3>1, <3>2, <3>4 DEF Inv, Stored
    <3>6. \A e \in Settled \cup InHand : e \in (Settled \cup InHand)'
      BY <3>1, <3>2, InHandIs DEF Settled
    <3>7. Reached'
      BY <3>1, <3>2, <3>6, ReachedStays DEF Inv
    <3> QED
      BY <3>3, <3>5, <3>7 DEF Inv
  <2>3. CASE store # "redis"
    BY <1>1, <2>1, <2>3, HandOnInv, HandOnAccounted DEF CheckStore, Inv
  <2> QED
    BY <2>2, <2>3
<1>2. CASE SkipDuplicate(h)
  <2>1. TypeOK' /\ Recorded'
    BY <1>2 DEF SkipDuplicate, handlerOnly, storeVars, historyVars, Idle, Inv, TypeOK, Recorded
  <2>2. handler[h] # Idle /\ handler[h].pc = "has" /\ handler[h].event \in Settled \cup Delivering
    BY <1>2 DEF SkipDuplicate, Idle, Inv, Stored
  <2>3. UNCHANGED <<hung, stream, seen, cursor_file, acknowledged, given_up, lost>>
    BY <1>2 DEF SkipDuplicate, handlerOnly, storeVars, historyVars
  <2>4. \A g \in Handlers : g # h => handler'[g] = handler[g]
    BY <1>2 DEF SkipDuplicate, Inv, TypeOK
  <2>5. handler[h].event \in (Settled \cup Delivering)'
    BY <2>2, <2>3, <2>4, DeliveringIs DEF Settled
  <2>6. Settled' = Settled
    BY <2>3 DEF Settled
  <2> QED
    BY <1>2, <2>1, <2>2, <2>3, <2>5, <2>6, EndAccounted DEF SkipDuplicate, Inv
<1>3. CASE AddToStore(h)
  <2>1. handler[h] \in InFlight
    BY <1>0, <1>3 DEF AddToStore, Idle
  <2>2. store # "memory"
    BY <1>3 DEF AddToStore, Inv, Recorded
  <2> QED
    BY <1>3, <2>1, <2>2, HandOnInv, HandOnAccounted DEF AddToStore, Inv
<1>4. ASSUME NEW recorded \in BOOLEAN, StoreFails(h, recorded)
      PROVE  Inv'
  <2>1. handler[h] # Idle /\ handler[h].pc \notin {"post", "save"} /\ handler[h].event \in Events
    BY <1>0, <1>4 DEF StoreFails, Idle
  <2>2. /\ handler' = [handler EXCEPT ![h] = Idle]
        /\ seen' \subseteq seen \cup {handler[h].event}
        /\ lost' = lost \cup ({handler[h].event} \ (acknowledged \cup given_up))
        /\ UNCHANGED <<hung, stream, cursor_file, acknowledged, given_up>>
    BY <1>4 DEF StoreFails, Lose, handlerOnly
  <2>3. TypeOK' /\ Recorded'
    BY <1>4, <2>1, <2>2 DEF StoreFails, handlerOnly, Inv, TypeOK, Recorded
  <2>4. handler[h].event \in Settled' /\ Settled \subseteq Settled'
    BY <2>2 DEF Settled
  <2> QED
    BY <2>1, <2>2, <2>3, <2>4, EndAccounted DEF Inv
<1>5. ASSUME NEW arrives \in BOOLEAN, NEW answered \in BOOLEAN, deliverWithRetry(h, arrives, answered)
      PROVE  Inv'
  BY <1>0, <1>5, DeliverInv DEF deliverWithRetry, Idle
<1>6. ASSUME NEW arrives \in BOOLEAN, DeliveryHangs(h, arrives)
      PROVE  Inv'
  <2>1. handler[h] # Idle /\ handler[h].event \in Events
    BY <1>0, <1>6 DEF DeliveryHangs, Idle
  <2>2. /\ handler' = [handler EXCEPT ![h] = Idle]
        /\ hung' = hung \cup {handler[h].event}
        /\ UNCHANGED <<stream, seen, cursor_file, acknowledged, given_up, lost>>
    BY <1>6 DEF DeliveryHangs, handlerOnly, storeVars, historyVars
  <2>3. arrived' \in [Events -> 0..2]
    BY <1>6, <2>1, TwiceType DEF DeliveryHangs, Inv, TypeOK
  <2>4. TypeOK' /\ Recorded'
    BY <1>6, <2>1, <2>2, <2>3
    DEF DeliveryHangs, handlerOnly, storeVars, historyVars, Idle, Inv, TypeOK, Recorded
  <2>5. handler[h].event \in Delivering' /\ Settled' = Settled
    BY <2>2, DeliveringIs DEF Settled
  <2> QED
    BY <2>1, <2>2, <2>4, <2>5, EndAccounted DEF Inv
<1>7. ASSUME NEW written \in 0..MaxEvents \cup {NoEntry}, saveCursor(h, written)
      PROVE  Inv'
  <2>1. handler[h] # Idle /\ handler[h].event \in Events /\ handler[h].pc = "save"
    BY <1>0, <1>7 DEF saveCursor, Idle
  <2>2. /\ handler' = [handler EXCEPT ![h] = Idle]
        /\ cursor_file' \in {handler[h].event, cursor_file, EmptyFile}
        /\ UNCHANGED <<stream, hung, seen, acknowledged, given_up, lost>>
    BY <1>7 DEF saveCursor, handlerOnly, historyVars
  <2>3. TypeOK' /\ Recorded'
    BY <1>7, <2>1, <2>2
    DEF saveCursor, handlerOnly, historyVars, Idle, Inv, TypeOK, Recorded
  <2>4. handler[h].event \in Settled' /\ Settled' = Settled
    BY <2>1, <2>2 DEF Inv, Stored, Settled
  <2>5. KeptUpTo(handler[h].event)
    BY <2>1 DEF Inv, Reached
  <2> QED
    BY <2>1, <2>2, <2>3, <2>4, <2>5, EndAccounted DEF Inv
<1> QED
  BY <1>1, <1>2, <1>3, <1>4, <1>5, <1>6, <1>7 DEF Handle

-----------------------------------------------------------------------------
(* The webhook server: the other steps *)

\* A stream that starts from now has let go what is not at work.
LEMMA ConnectInv ==
    ASSUME WebhookAssumption, Inv, connect
    PROVE  Inv'
<1>1. /\ MaxEvents \in Nat /\ published \in 0..MaxEvents
      /\ UNCHANGED <<hung, handler, seen, store, cursor_file, acknowledged, given_up, begun>>
  BY DEF connect, storeVars, Inv, TypeOK, WebhookAssumption
<1>2. lost \subseteq lost' /\ lost' \subseteq Events
  BY <1>1 DEF connect, Lose, Inv, TypeOK, Events
<1>3. stream' \in 0..MaxEvents \cup {NoEntry}
  BY <1>1 DEF connect, loadCursor, StartsNow, EmptyFile, Inv, TypeOK, Events
<1>4. TypeOK' /\ Recorded'
  BY <1>1, <1>2, <1>3 DEF connect, storeVars, Inv, TypeOK, Recorded
<1>5. Settled \subseteq Settled' /\ Delivering' = Delivering /\ InHand' = InHand
  BY <1>1, <1>2 DEF Settled, Delivering, InHand
<1>6. Stored'
  BY <1>1, <1>5 DEF Inv, Stored
<1>7. \A e \in Events : e <= stream' => e \in (Settled \cup InHand)'
  <2>1. CASE StartsNow
    <3>1. stream' = published /\ lost' = lost \cup ((1..published \ InHand) \ (acknowledged \cup given_up))
      BY <2>1 DEF connect, loadCursor, Lose
    <3>2. \A e \in Events : e <= published => e \in 1..published
      BY <1>1 DEF Events
    <3> QED
      BY <1>1, <1>5, <3>1, <3>2 DEF Settled
  <2>2. CASE ~StartsNow /\ cursor_file = NoEntry
    BY <2>2 DEF connect, loadCursor, Events
  <2>3. CASE ~StartsNow /\ cursor_file # NoEntry
    BY <1>5, <2>3 DEF connect, loadCursor, Inv, Reached, KeptUpTo
  <2> QED
    BY <2>1, <2>2, <2>3
<1>8. Reached'
  BY <1>1, <1>5, <1>7 DEF Inv, Reached, KeptUpTo, Events
<1> QED
  BY <1>4, <1>6, <1>8 DEF Inv

\* The next event is in the hands of its handler, and the ones before were kept.
LEMMA OnMessageInv ==
    ASSUME WebhookAssumption, Inv, NEW h \in Handlers, OnMessage(h)
    PROVE  Inv'
<1>1. stream \in 0..MaxEvents /\ stream + 1 \in Events /\ handler[h] = Idle /\ stream' = stream + 1
  BY WebhookAssumption DEF OnMessage, Inv, TypeOK, Events, WebhookAssumption
<1>2. [pc |-> "has", event |-> stream + 1, attempt |-> 1] \in InFlight
  BY <1>1, WebhookAssumption DEF InFlight, WebhookAssumption
<1>3. /\ handler' \in [Handlers -> InFlight \cup {Idle}]
      /\ handler'[h] # Idle /\ handler'[h].pc = "has" /\ handler'[h].event = stream + 1
      /\ \A g \in Handlers : g # h => handler'[g] = handler[g]
  BY <1>2 DEF OnMessage, Inv, TypeOK, Idle
<1>4. stream' \in 0..MaxEvents \cup {NoEntry}
  BY <1>1 DEF Events
<1>5. UNCHANGED <<hung, seen, store, cursor_file, acknowledged, given_up, lost, begun>>
  BY DEF OnMessage, storeVars, historyVars
<1>6. TypeOK' /\ Recorded'
  BY <1>3, <1>4, <1>5 DEF OnMessage, storeVars, historyVars, Inv, TypeOK, Recorded
<1>7. \A e \in Settled \cup Delivering : e \in (Settled \cup Delivering)'
  BY <1>1, <1>3, <1>5, DeliveringIs DEF Settled, Idle
<1>8. Stored'
  BY <1>3, <1>5, <1>7 DEF Inv, Stored
<1>9. \A e \in Settled \cup InHand : e \in (Settled \cup InHand)'
  BY <1>1, <1>3, <1>5, InHandIs DEF Settled
<1>10. \A e \in Events : e <= stream + 1 => e \in (Settled \cup InHand)'
  <2>1. \A e \in Events : e <= stream + 1 => e <= stream \/ e = stream + 1
    BY <1>1 DEF Events
  <2>2. \A e \in Events : e <= stream => e \in Settled \cup InHand
    BY DEF OnMessage, Inv, Reached, KeptUpTo
  <2>3. stream + 1 \in InHand'
    BY <1>3, InHandIs
  <2> QED
    BY <1>9, <2>1, <2>2, <2>3
<1>11. \A g \in Handlers : handler'[g] # Idle =>
           \A e \in Events : e <= handler'[g].event => e \in (Settled \cup InHand)'
  BY <1>3, <1>9, <1>10 DEF Inv, Reached, KeptUpTo
<1>12. cursor_file' # NoEntry => \A e \in Events : e <= cursor_file' => e \in (Settled \cup InHand)'
  BY <1>5, <1>9 DEF Inv, Reached, KeptUpTo
<1>13. Reached'
  BY <1>1, <1>10, <1>11, <1>12 DEF Reached, KeptUpTo, Events
<1> QED
  BY <1>6, <1>8, <1>13 DEF Inv

\* What the cursor has passed, or the store keeps, is let go with the run.
LEMMA StopInv ==
    ASSUME WebhookAssumption, Inv, NEW emptied \in BOOLEAN, Stop(emptied)
    PROVE  Inv'
<1>1. /\ running' = FALSE /\ stream' = NoEntry /\ handler' = [h \in Handlers |-> Idle]
      /\ hung' = {} /\ seen' \subseteq seen /\ begun' = [e \in Events |-> 0]
      /\ cursor_file' \in {cursor_file, EmptyFile}
      /\ UNCHANGED <<published, store, arrived, acknowledged, given_up>>
  BY DEF Stop
<1>2. /\ lost \subseteq lost'
      /\ \A e \in InHand : (cursor_file' # NoEntry /\ e <= cursor_file') \/ e \in seen'
             => e \in lost' \cup acknowledged \cup given_up
      /\ lost' \subseteq lost \cup InHand
  BY DEF Stop, Lose
<1>3. InHand \subseteq Events
  BY InHandIs DEF Inv, TypeOK, InFlight
<1>4. faults' \in 0..MaxFaults
  BY WebhookAssumption DEF Stop, Inv, TypeOK, WebhookAssumption
<1>5. TypeOK'
  <2>1. handler' \in [Handlers -> InFlight \cup {Idle}] /\ begun' \in [Events -> 0..2]
    BY <1>1
  <2>2. lost' \cup seen' \subseteq Events
    BY <1>1, <1>2, <1>3 DEF Inv, TypeOK
  <2> QED
    BY <1>1, <1>4, <2>1, <2>2 DEF Inv, TypeOK
<1>6. Recorded'
  BY <1>1 DEF Recorded, Idle
<1>7. \A e \in Delivering : e \in InHand
  BY DeliveringIs, InHandIs DEF Idle
<1>8. \A e \in Settled : e \in Settled'
  BY <1>1, <1>2 DEF Settled
<1>9. \A e \in seen' : e \in Settled'
  BY <1>1, <1>2, <1>7, <1>8 DEF Inv, Stored, Settled
<1>10. Stored'
  BY <1>1, <1>9 DEF Stored, Idle
<1>11. cursor_file' # NoEntry => \A e \in Events : e <= cursor_file' => e \in Settled'
  <2>1. CASE cursor_file' = EmptyFile
    BY <2>1 DEF EmptyFile, Events
  <2>2. CASE cursor_file' = cursor_file
    BY <1>1, <1>2, <1>8, <2>2 DEF Inv, Reached, KeptUpTo, Settled
  <2> QED
    BY <1>1, <2>1, <2>2
<1>12. Reached'
  BY <1>1, <1>11 DEF Reached, KeptUpTo, Events
<1> QED
  BY <1>5, <1>6, <1>10, <1>12 DEF Inv

\* Where the handlers and the events they settled stay as they are.
LEMMA AccountedKept ==
    ASSUME Inv, UNCHANGED <<handler, hung, seen, cursor_file, acknowledged, given_up, lost>>,
           stream' \in {stream, NoEntry}
    PROVE  Stored' /\ Reached'
<1>1. Settled' = Settled /\ Delivering' = Delivering /\ InHand' = InHand
  BY DEF Settled, Delivering, InHand
<1>2. Stored'
  BY <1>1 DEF Inv, Stored
<1>3. Reached'
  BY <1>1, ReachedStays DEF Inv
<1> QED
  BY <1>2, <1>3

LEMMA NextInv ==
    ASSUME WebhookAssumption, Inv, [Next]_vars
    PROVE  Inv'
<1>1. CASE Publish
  <2>1. TypeOK' /\ Recorded'
    BY <1>1, WebhookAssumption
    DEF Publish, storeVars, historyVars, Inv, TypeOK, Recorded, WebhookAssumption
  <2> QED
    BY <1>1, <2>1, AccountedKept DEF Publish, storeVars, historyVars, Inv
<1>2. CASE connect
  BY <1>2, ConnectInv
<1>3. ASSUME NEW h \in Handlers, OnMessage(h)
      PROVE  Inv'
  BY <1>3, OnMessageInv
<1>4. CASE OnError
  <2>1. TypeOK' /\ Recorded'
    BY <1>4, WebhookAssumption
    DEF OnError, storeVars, historyVars, Inv, TypeOK, Recorded, WebhookAssumption
  <2> QED
    BY <1>4, <2>1, AccountedKept DEF OnError, storeVars, historyVars, Inv
<1>5. ASSUME NEW h \in Handlers, Handle(h)
      PROVE  Inv'
  BY <1>5, HandleInv
<1>6. ASSUME NEW emptied \in BOOLEAN, Stop(emptied)
      PROVE  Inv'
  BY <1>6, StopInv
<1>7. CASE Restart
  <2>1. TypeOK' /\ Recorded'
    BY <1>7 DEF Restart, storeVars, historyVars, Inv, TypeOK, Recorded
  <2> QED
    BY <1>7, <2>1, AccountedKept DEF Restart, storeVars, historyVars, Inv
<1>8. CASE UNCHANGED vars
  <2>1. TypeOK' /\ Recorded'
    BY <1>8 DEF vars, storeVars, historyVars, Inv, TypeOK, Recorded
  <2> QED
    BY <1>8, <2>1, AccountedKept DEF vars, storeVars, historyVars, Inv
<1> QED
  BY <1>1, <1>2, <1>3, <1>4, <1>5, <1>6, <1>7, <1>8 DEF Next

\* With the memory store, an event is handed on for delivery at most once in a
\* run of the process (handleMessage, MemoryIdempotencyStore).
THEOREM MemoryOncePerRun == Spec => []OncePerRun
<1>1. Inv /\ [Next]_vars => Inv'
  BY NextInv, WebhookAssumption
<1>2. Inv => OncePerRun
  BY DEF Inv, Recorded, OncePerRun
<1> QED
  BY InitInv, <1>1, <1>2, PTL DEF Spec

\* With either store, no event that the stream, the cursor or the store has
\* passed is missing: it was delivered, given up or let go for a reason that is
\* named, or it is at work (connect, handleMessage, saveCursor).
THEOREM EventsNeverOverlooked == Spec => []NothingOverlooked
<1>1. Inv /\ [Next]_vars => Inv'
  BY NextInv, WebhookAssumption
<1>2. Inv => NothingOverlooked
  <2>1. \A e \in Delivering : e \in InHand
    BY DeliveringIs, InHandIs DEF Idle
  <2> QED
    BY <2>1 DEF Inv, Stored, Reached, KeptUpTo, Settled, NothingOverlooked, Passed
<1> QED
  BY InitInv, <1>1, <1>2, PTL DEF Spec

\* Events, store, cursor and handlers keep their types, with either store.
THEOREM WebhookTypeCorrect == Spec => []TypeOK
<1>1. Inv /\ [Next]_vars => Inv'
  BY NextInv, WebhookAssumption
<1>2. Inv => TypeOK
  BY DEF Inv
<1> QED
  BY InitInv, <1>1, <1>2, PTL DEF Spec

-----------------------------------------------------------------------------
(* The router: the ledgers of a cycle *)

\* The ledgers before n whose place in the cycle is below w.
CanaryLedgers(w, n) ==
    (n \div Buckets) * w + (IF n % Buckets < w THEN n % Buckets ELSE w)

LEMMA Division ==
    ASSUME NEW n \in Nat
    PROVE  \E q \in Nat, r \in 0..Buckets - 1 :
               n \div Buckets = q /\ n % Buckets = r /\ n = q * Buckets + r
<1>0. Buckets \in Nat \ {0}
  BY RolloutAssumption DEF RolloutAssumption
<1>1. ASSUME NEW b \in Nat \ {0} PROVE n % b = n - b * (n \div b)
  BY SMTT(30)
<1>2. n \div Buckets \in Nat /\ n % Buckets \in 0..Buckets - 1
  BY <1>0
<1>3. PICK q \in Nat, r \in 0..Buckets - 1 : q = n \div Buckets /\ r = n % Buckets
  BY <1>2
<1>4. r = n - Buckets * q
  BY <1>0, <1>1, <1>3
<1>5. Buckets * q = q * Buckets /\ Buckets * q \in Nat
  BY <1>0
<1>6. n = q * Buckets + r
  BY <1>4, <1>5
<1> QED
  BY <1>3, <1>6

\* Quotient and remainder are what they are divided into.
LEMMA DivisionUnique ==
    ASSUME NEW q \in Nat, NEW r \in 0..Buckets - 1, NEW n \in Nat, n = q * Buckets + r
    PROVE  n \div Buckets = q /\ n % Buckets = r
<1>0. Buckets \in Nat \ {0}
  BY RolloutAssumption DEF RolloutAssumption
<1>1. PICK p \in Nat, s \in 0..Buckets - 1 :
          n \div Buckets = p /\ n % Buckets = s /\ n = p * Buckets + s
  BY Division
<1>2. (p - q) * Buckets = r - s
  BY <1>0, <1>1
<1>3. ~(p >= q + 1)
  <2>1. p >= q + 1 => (p - q) * Buckets >= Buckets
    BY <1>0, <1>1
  <2> QED BY <2>1, <1>0, <1>1, <1>2
<1>4. ~(q >= p + 1)
  <2>1. q >= p + 1 => (q - p) * Buckets >= Buckets
    BY <1>0, <1>1
  <2>2. (q - p) * Buckets = s - r
    BY <1>0, <1>1
  <2> QED BY <2>1, <2>2, <1>0, <1>1
<1>5. p = q
  BY <1>1, <1>3, <1>4
<1>6. s = r
  BY <1>0, <1>1, <1>2, <1>5
<1> QED
  BY <1>1, <1>5, <1>6

\* One more ledger: it counts if its place is below w.
LEMMA CanaryStep ==
    ASSUME NEW n \in Nat, NEW w \in 0..Buckets
    PROVE  /\ CanaryLedgers(w, n) \in Nat
           /\ CanaryLedgers(w, n + 1) = CanaryLedgers(w, n) + (IF n % Buckets < w THEN 1 ELSE 0)
<1>0. Buckets \in Nat \ {0}
  BY RolloutAssumption DEF RolloutAssumption
<1>1. PICK q \in Nat, r \in 0..Buckets - 1 :
          n \div Buckets = q /\ n % Buckets = r /\ n = q * Buckets + r
  BY Division
<1>2. CanaryLedgers(w, n) = q * w + (IF r < w THEN r ELSE w)
  BY <1>1 DEF CanaryLedgers
<1>3. q * w \in Nat
  BY <1>0, <1>1
<1>4. CASE r + 1 < Buckets
  <2>1. n + 1 = q * Buckets + (r + 1) /\ r + 1 \in 0..Buckets - 1
    BY <1>0, <1>1, <1>4
  <2>2. (n + 1) \div Buckets = q /\ (n + 1) % Buckets = r + 1
    BY <2>1, <1>1, DivisionUnique
  <2>3. CanaryLedgers(w, n + 1) = q * w + (IF r + 1 < w THEN r + 1 ELSE w)
    BY <2>2 DEF CanaryLedgers
  <2> QED
    BY <2>3, <1>0, <1>1, <1>2, <1>3
<1>5. CASE r + 1 = Buckets
  <2>1. n + 1 = (q + 1) * Buckets + 0 /\ 0 \in 0..Buckets - 1 /\ q + 1 \in Nat
    BY <1>0, <1>1, <1>5
  <2>2. (n + 1) \div Buckets = q + 1 /\ (n + 1) % Buckets = 0
    BY <2>1, DivisionUnique
  <2>3. CanaryLedgers(w, n + 1) = (q + 1) * w + 0
    BY <2>2, <1>0 DEF CanaryLedgers
  <2>4. (q + 1) * w = q * w + w
    BY <1>0, <1>1
  <2>5. (IF r < w THEN r ELSE w) + (IF r < w THEN 1 ELSE 0) = w
    BY <1>0, <1>1, <1>5
  <2> QED
    BY <2>3, <2>4, <2>5, <1>0, <1>1, <1>2, <1>3
<1> QED
  BY <1>0, <1>1, <1>4, <1>5

\* A cycle more, and w ledgers more.
LEMMA CanaryCycles ==
    ASSUME NEW a \in Nat, NEW n \in Nat, a <= n, NEW w \in 0..Buckets, (n - a) % Buckets = 0
    PROVE  (CanaryLedgers(w, n) - CanaryLedgers(w, a)) * Buckets = w * (n - a)
<1>0. Buckets \in Nat \ {0}
  BY RolloutAssumption DEF RolloutAssumption
<1>1. n - a \in Nat
  OBVIOUS
<1>2. PICK k \in Nat : n - a = k * Buckets
  <2>1. PICK k \in Nat, z \in 0..Buckets - 1 : z = 0 /\ n - a = k * Buckets + z
    BY <1>1, Division
  <2>2. k * Buckets \in Nat
    BY <1>0
  <2> QED BY <2>1, <2>2
<1>3. PICK q \in Nat, r \in 0..Buckets - 1 :
          a \div Buckets = q /\ a % Buckets = r /\ a = q * Buckets + r
  BY Division
<1>4. n = (q + k) * Buckets + r
  <2>1. (q + k) * Buckets = q * Buckets + k * Buckets
    BY <1>0, <1>2, <1>3
  <2>2. q * Buckets \in Nat /\ k * Buckets \in Nat
    BY <1>0, <1>2, <1>3
  <2> QED BY <2>1, <2>2, <1>0, <1>2, <1>3
<1>5. n \div Buckets = q + k /\ n % Buckets = r
  BY <1>2, <1>3, <1>4, DivisionUnique
<1>6. CanaryLedgers(w, n) - CanaryLedgers(w, a) = k * w
  <2>1. (q + k) * w = q * w + k * w
    BY <1>2, <1>3
  <2>2. q * w \in Nat /\ k * w \in Nat
    BY <1>2, <1>3
  <2>3. CanaryLedgers(w, a) = q * w + (IF r < w THEN r ELSE w)
    BY <1>3 DEF CanaryLedgers
  <2>4. CanaryLedgers(w, n) = (q + k) * w + (IF r < w THEN r ELSE w)
    BY <1>5 DEF CanaryLedgers
  <2> QED BY <2>1, <2>2, <2>3, <2>4, <1>0, <1>3
<1>7. (k * w) * Buckets = w * (k * Buckets)
  BY <1>0, <1>2
<1> QED
  BY <1>2, <1>6, <1>7

-----------------------------------------------------------------------------
(* The router: the steps *)

\* The closed form of the ledgers that went to the canary since the weight was
\* set: the share of a whole cycle follows from it.
CountExact ==
    /\ since.ledger <= ledger
    /\ since.hits <= ledger - since.ledger
    /\ since.hits = CanaryLedgers(canary_weight, ledger) - CanaryLedgers(canary_weight, since.ledger)

\* As long as it is known what a rollback undoes, the file says so or has been
\* emptied, and a rollback under way that has read it goes there.
FileKnown ==
    /\ script # NoScript /\ script.pc \in {"read", "save"} => script.kind = "cutover"
    /\ undo # Unset =>
        /\ file \in {undo, "empty"}
        /\ script # NoScript /\ script.kind = "rollback" /\ script.from_file => script.target = undo

RolloutInv == RolloutTypeOK /\ ActiveSlotConfigured /\ CountExact /\ FileKnown

LEMMA RolloutInitInv == RolloutInit => RolloutInv
<1> SUFFICES ASSUME RolloutInit PROVE RolloutInv
  OBVIOUS
<1>1. RolloutTypeOK
  BY RolloutAssumption DEF RolloutAssumption, RolloutInit, RolloutTypeOK
<1>2. ActiveSlotConfigured
  BY DEF RolloutInit, ActiveSlotConfigured
<1>3. CountExact
  <2>1. CanaryLedgers(0, 0) - CanaryLedgers(0, 0) = 0
    BY CanaryStep, RolloutAssumption DEF RolloutAssumption
  <2> QED BY <2>1 DEF RolloutInit, CountExact
<1>4. FileKnown
  BY DEF RolloutInit, FileKnown
<1> QED
  BY <1>1, <1>2, <1>3, <1>4 DEF RolloutInv

\* Where the clock, the weight and the count stay, so does what was counted.
LEMMA CountKept ==
    ASSUME CountExact, UNCHANGED <<ledger, canary_weight, since>>
    PROVE  CountExact'
BY DEF CountExact

LEMMA CloseLedgerInv ==
    ASSUME RolloutInv, CloseLedger
    PROVE  RolloutInv'
<1>0. Buckets \in Nat \ {0} /\ MaxLedger \in Nat
  BY RolloutAssumption DEF RolloutAssumption
<1>1. /\ ledger \in Nat /\ ledger < MaxLedger /\ ledger' = ledger + 1
      /\ canary_weight \in 0..Buckets /\ canary_weight' = canary_weight
      /\ since.ledger \in Nat /\ since.hits \in Nat
  BY <1>0 DEF RolloutInv, RolloutTypeOK, CloseLedger, routerVars
<1>2. since' = [since EXCEPT !.hits = @ + (IF ledger % Buckets < canary_weight THEN 1 ELSE 0)]
  <2>1. ledger % Buckets \in 0..Buckets - 1
    BY <1>1, Division
  <2>2. RoutesToCanary <=> ledger % Buckets < canary_weight
    BY <1>0, <1>1, <2>1 DEF RoutesToCanary
  <2> QED BY <2>2 DEF CloseLedger
<1>3. since \in [ledger : 0..MaxLedger, hits : 0..MaxLedger]
  BY DEF RolloutInv, RolloutTypeOK
<1>4. /\ since'.ledger = since.ledger
      /\ since'.hits = since.hits + (IF ledger % Buckets < canary_weight THEN 1 ELSE 0)
  BY <1>2, <1>3
<1>5. CountExact'
  <2>1. /\ CanaryLedgers(canary_weight, ledger) \in Nat
        /\ CanaryLedgers(canary_weight, since.ledger) \in Nat
        /\ CanaryLedgers(canary_weight, ledger + 1) = CanaryLedgers(canary_weight, ledger)
              + (IF ledger % Buckets < canary_weight THEN 1 ELSE 0)
    BY <1>1, CanaryStep
  <2>2. CanaryLedgers(canary_weight, ledger)' = CanaryLedgers(canary_weight, ledger + 1)
    BY <1>1 DEF CanaryLedgers
  <2>3. CanaryLedgers(canary_weight, since.ledger)' = CanaryLedgers(canary_weight, since.ledger)
    BY <1>1, <1>4 DEF CanaryLedgers
  <2> QED
    BY <1>1, <1>4, <2>1, <2>2, <2>3 DEF RolloutInv, CountExact
<1>6. since' \in [ledger : 0..MaxLedger, hits : 0..MaxLedger]
  <2>1. since'.hits \in 0..MaxLedger
    BY <1>0, <1>1, <1>4, <1>5 DEF CountExact
  <2> QED BY <1>2, <1>3, <1>4, <2>1
<1>7. RolloutTypeOK'
  BY <1>0, <1>1, <1>6 DEF RolloutInv, RolloutTypeOK, CloseLedger, routerVars
<1>8. ActiveSlotConfigured' /\ FileKnown'
  BY DEF RolloutInv, ActiveSlotConfigured, IsConfigured, FileKnown, CloseLedger, routerVars
<1> QED
  BY <1>5, <1>7, <1>8 DEF RolloutInv

LEMMA SetWeightInv ==
    ASSUME RolloutInv, NEW c \in Admins, NEW w \in Weights, set_canary_weight(c, w)
    PROVE  RolloutInv'
<1>1. w \in 0..Buckets /\ ledger \in Nat /\ MaxLedger \in Nat
  BY RolloutAssumption DEF RolloutAssumption, RolloutInv, RolloutTypeOK, set_canary_weight
<1>2. CountExact'
  <2>1. CanaryLedgers(w, ledger) \in Nat
    BY <1>1, CanaryStep
  <2>2. since'.ledger = ledger /\ since'.hits = 0 /\ ledger' = ledger /\ canary_weight' = w
    BY DEF set_canary_weight
  <2>3. CanaryLedgers(canary_weight, ledger)' = CanaryLedgers(w, ledger)
    BY <2>2 DEF CanaryLedgers
  <2>4. CanaryLedgers(canary_weight, since.ledger)' = CanaryLedgers(w, ledger)
    BY <2>2 DEF CanaryLedgers
  <2> QED BY <1>1, <2>1, <2>2, <2>3, <2>4 DEF CountExact
<1>3. RolloutTypeOK'
  BY <1>1 DEF RolloutInv, RolloutTypeOK, set_canary_weight
<1>4. ActiveSlotConfigured' /\ FileKnown'
  BY DEF RolloutInv, ActiveSlotConfigured, IsConfigured, FileKnown, set_canary_weight
<1> QED
  BY <1>2, <1>3, <1>4 DEF RolloutInv

\* The calls that set an address, and the ones that ask for a route.
LEMMA RouterInv ==
    ASSUME RolloutInv,
           \/ RouteCall
           \/ Forward
           \/ \E c, n \in Admins : set_admin(c, n)
           \/ \E c \in Admins, s \in Slots, k \in Contracts : set_slot_contract(c, s, k)
           \/ \E c \in Admins, k \in Contracts : set_stable_contract(c, k)
           \/ \E c \in Admins, k \in Contracts : set_canary_contract(c, k)
    PROVE  RolloutInv'
<1> USE DEF RolloutInv
<1>1. CASE RouteCall
  <2>1. route_call \in Contracts
    BY <1>1 DEF RouteCall, route_call, get_active_slot, Slots, RolloutTypeOK
  <2> QED
    BY <1>1, <2>1, CountKept
    DEF RouteCall, routerVars, RolloutTypeOK, ActiveSlotConfigured, IsConfigured, FileKnown
<1>2. CASE Forward
  BY <1>2, CountKept DEF Forward, routerVars, RolloutTypeOK, ActiveSlotConfigured, IsConfigured, FileKnown
<1>3. ASSUME NEW c \in Admins, NEW n \in Admins, set_admin(c, n) PROVE RolloutInv'
  BY <1>3, CountKept DEF set_admin, RolloutTypeOK, ActiveSlotConfigured, IsConfigured, FileKnown
<1>4. ASSUME NEW c \in Admins, NEW s \in Slots, NEW k \in Contracts, set_slot_contract(c, s, k)
      PROVE  RolloutInv'
  <2>1. slot_contract' \in [Slots -> Contracts \cup {Unset}]
    BY <1>4 DEF set_slot_contract, RolloutTypeOK
  <2>2. ActiveSlotConfigured'
    BY <1>4, RolloutAssumption
    DEF set_slot_contract, RolloutTypeOK, ActiveSlotConfigured, IsConfigured, RolloutAssumption
  <2> QED
    BY <1>4, <2>1, <2>2, CountKept DEF set_slot_contract, RolloutTypeOK, FileKnown
<1>5. ASSUME NEW c \in Admins, NEW k \in Contracts, set_stable_contract(c, k) PROVE RolloutInv'
  BY <1>5, CountKept DEF set_stable_contract, RolloutTypeOK, ActiveSlotConfigured, IsConfigured, FileKnown
<1>6. ASSUME NEW c \in Admins, NEW k \in Contracts, set_canary_contract(c, k) PROVE RolloutInv'
  BY <1>6, CountKept DEF set_canary_contract, RolloutTypeOK, ActiveSlotConfigured, IsConfigured, FileKnown
<1> QED
  BY <1>1, <1>2, <1>3, <1>4, <1>5, <1>6

LEMMA SwitchByHandInv ==
    ASSUME RolloutInv, NEW c \in Admins, NEW s \in Slots, SwitchByHand(c, s)
    PROVE  RolloutInv'
<1>1. RolloutTypeOK'
  BY DEF RolloutInv, SwitchByHand, set_active_slot, RolloutTypeOK
<1>2. ActiveSlotConfigured' /\ FileKnown'
  BY DEF RolloutInv, SwitchByHand, set_active_slot, ActiveSlotConfigured, IsConfigured, FileKnown
<1> QED
  BY <1>1, <1>2, CountKept DEF RolloutInv, SwitchByHand

LEMMA ScriptInv ==
    ASSUME RolloutInv,
           \/ \E s \in Slots : StartCutover(s)
           \/ \E r \in PrintedSlot \cup {"unknown"} : ReadCurrent(r)
           \/ SaveCurrent
           \/ \E o \in Slots \cup {Unset}, r \in PrintedSlot \cup {"Blue"} : StartRollback(o, r)
           \/ CheckTarget
           \/ \E answered \in BOOLEAN : Switch(answered)
           \/ ClearFile
           \/ EndScript
    PROVE  RolloutInv'
<1> USE DEF RolloutInv
<1>0. /\ script # NoScript => script \in Running
      /\ get_active_slot \in Slots
      /\ Unset \notin Slots
  BY RolloutAssumption DEF RolloutTypeOK, get_active_slot, Slots, RolloutAssumption
<1>1. ASSUME NEW s \in Slots, StartCutover(s) PROVE RolloutInv'
  <2>1. script' \in Running
    BY <1>1 DEF StartCutover, Running
  <2> QED
    BY <1>1, <2>1, CountKept
    DEF StartCutover, scriptOnly, routerVars, RolloutTypeOK, ActiveSlotConfigured, IsConfigured, FileKnown
<1>2. ASSUME NEW r \in Slots \cup {"unknown", "quoted"}, ReadCurrent(r) PROVE RolloutInv'
  <2>0. script.pc = "read"
    BY <1>2 DEF ReadCurrent
  <2>1. script # NoScript /\ script \in Running
    BY <1>0, <2>0 DEF NoScript
  <2>2. script' \in Running /\ script'.kind = script.kind
    BY <1>2, <2>1 DEF ReadCurrent, Running
  <2>3. script.kind = "cutover"
    BY <2>0, <2>1 DEF FileKnown
  <2> QED
    BY <1>2, <2>2, <2>3, CountKept
    DEF ReadCurrent, scriptOnly, routerVars, RolloutTypeOK, ActiveSlotConfigured, IsConfigured, FileKnown
<1>3. CASE SaveCurrent
  <2>1. script \in Running
    BY <1>0, <1>3 DEF SaveCurrent, NoScript
  <2>2. script' \in Running /\ script'.kind = script.kind /\ script'.pc = "check"
    BY <1>3, <2>1 DEF SaveCurrent, Running
  <2>3. script.kind = "cutover"
    BY <1>3, <2>1 DEF SaveCurrent, FileKnown, NoScript, Running
  <2>4. script.current \in Slots \cup {"unknown", "quoted"}
    BY <2>1 DEF Running
  <2>5. undo' \in Slots \cup {Unset} /\ (undo' # Unset => file' = undo') /\ file' = script.current
    BY <1>0, <1>3 DEF SaveCurrent
  <2>6. FileKnown'
    BY <2>2, <2>3, <2>5 DEF FileKnown
  <2> QED
    BY <1>3, <2>2, <2>4, <2>5, <2>6, CountKept
    DEF SaveCurrent, scriptOnly, routerVars, RolloutTypeOK, ActiveSlotConfigured, IsConfigured
<1>4. ASSUME NEW o \in Slots \cup {Unset}, NEW r, StartRollback(o, r) PROVE RolloutInv'
  <2>1. /\ script' \in Running /\ script'.pc = "check" /\ script'.kind = "rollback"
        /\ script'.from_file => script'.target = file /\ file \in Slots
    BY <1>4 DEF StartRollback, RollbackTarget, Running
  <2>2. FileKnown'
    BY <1>4, <2>1 DEF StartRollback, FileKnown, Slots
  <2> QED
    BY <1>4, <2>1, <2>2, CountKept
    DEF StartRollback, scriptOnly, routerVars, RolloutTypeOK, ActiveSlotConfigured, IsConfigured
<1>5. CASE CheckTarget
  <2>1. script \in Running
    BY <1>0, <1>5 DEF CheckTarget, NoScript
  <2>2. /\ script' \in Running /\ script'.pc = "switch" /\ script'.kind = script.kind
        /\ script'.target = script.target /\ script'.from_file = script.from_file
    BY <1>5, <2>1 DEF CheckTarget, Running
  <2>3. FileKnown'
    BY <1>5, <2>1, <2>2 DEF CheckTarget, FileKnown, NoScript, Running
  <2> QED
    BY <1>5, <2>2, <2>3, CountKept
    DEF CheckTarget, scriptOnly, routerVars, RolloutTypeOK, ActiveSlotConfigured, IsConfigured
<1>6. ASSUME NEW answered \in BOOLEAN, Switch(answered) PROVE RolloutInv'
  <2>1. script \in Running /\ script # NoScript
    BY <1>0, <1>6 DEF Switch, NoScript
  <2>2. \/ script' = NoScript
        \/ /\ script' \in Running /\ script'.pc = "clear" /\ script'.kind = script.kind
           /\ script'.target = script.target /\ script'.from_file = script.from_file
    BY <1>6, <2>1 DEF Switch, Running
  <2>3. undo' \in {undo, Unset} /\ file' = file
    BY <1>6 DEF Switch
  <2>4. FileKnown'
    BY <2>1, <2>2, <2>3 DEF FileKnown
  <2>5. active_slot' = script.target /\ script.target \in Slots /\ slot_contract[script.target] # Unset
    BY <1>6, <2>1 DEF Switch, set_active_slot, IsConfigured, Running
  <2>6. ActiveSlotConfigured'
    BY <1>6, <2>5 DEF Switch, ActiveSlotConfigured, IsConfigured
  <2>7. RolloutTypeOK'
    BY <1>6, <2>2, <2>3, <2>5 DEF Switch, RolloutTypeOK
  <2> QED
    BY <1>6, <2>4, <2>6, <2>7, CountKept DEF Switch
<1>7. CASE ClearFile
  BY <1>7, CountKept
  DEF ClearFile, scriptOnly, routerVars, RolloutTypeOK, ActiveSlotConfigured, IsConfigured, FileKnown
<1>8. CASE EndScript
  BY <1>8, CountKept
  DEF EndScript, scriptOnly, routerVars, RolloutTypeOK, ActiveSlotConfigured, IsConfigured, FileKnown
<1>9. PrintedSlot \subseteq Slots \cup {"quoted"}
  BY <1>0 DEF PrintedSlot
<1>10. ASSUME NEW r \in PrintedSlot \cup {"unknown"}, ReadCurrent(r) PROVE RolloutInv'
  BY <1>2, <1>9, <1>10
<1>11. ASSUME NEW o \in Slots \cup {Unset}, NEW r \in PrintedSlot \cup {"Blue"}, StartRollback(o, r)
       PROVE  RolloutInv'
  BY <1>4, <1>11
<1> QED
  BY <1>1, <1>3, <1>5, <1>6, <1>7, <1>8, <1>10, <1>11

LEMMA RolloutNextInv ==
    ASSUME RolloutInv, [RolloutNext]_rolloutVars
    PROVE  RolloutInv'
<1>1. CASE UNCHANGED rolloutVars
  BY <1>1, CountKept
  DEF rolloutVars, routerVars, RolloutInv, RolloutTypeOK, ActiveSlotConfigured, IsConfigured, FileKnown
<1>2. CASE CloseLedger
  BY <1>2, CloseLedgerInv
<1>3. ASSUME NEW c \in Admins, NEW w \in Weights, set_canary_weight(c, w) PROVE RolloutInv'
  BY <1>3, SetWeightInv
<1>4. ASSUME NEW c \in Admins, NEW s \in Slots, SwitchByHand(c, s) PROVE RolloutInv'
  BY <1>4, SwitchByHandInv
<1> QED
  BY <1>1, <1>2, <1>3, <1>4, RouterInv, ScriptInv DEF RolloutNext

\* What the closed form says of whole cycles.
LEMMA ShareExact ==
    ASSUME RolloutInv
    PROVE  CanaryShare
<1> SUFFICES ASSUME (ledger - since.ledger) % Buckets = 0
             PROVE  since.hits * Buckets = canary_weight * (ledger - since.ledger)
  BY DEF CanaryShare
<1>1. ledger \in Nat /\ since.ledger \in Nat /\ canary_weight \in 0..Buckets
  BY RolloutAssumption DEF RolloutAssumption, RolloutInv, RolloutTypeOK
<1> QED
  BY <1>1, CanaryCycles DEF RolloutInv, CountExact

\* Routing stays sound, by hand or by script, in either mode: the active slot
\* has a contract, and every cycle of ledgers gives the canary its weight, for
\* any length of the cycle (set_active_slot, set_canary_weight, route_call).
THEOREM RoutingAlwaysSound == RolloutSpec => []RoutingSound
<1>1. RolloutInv => RoutingSound
  BY ShareExact DEF RolloutInv, RoutingSound
<1> QED
  BY RolloutInitInv, RolloutNextInv, <1>1, PTL DEF RolloutSpec

\* A rollback that goes by the file restores the slot the cutover replaced,
\* however the scripts before it ended (cutover.sh, rollback.sh).
THEOREM RollbackAlwaysReverts == RolloutSpec => RollbackReverts
<1> DEFINE A == (/\ script.pc = "switch" /\ script.kind = "rollback" /\ script.from_file /\ undo # Unset
                 /\ script' # script
                 /\ script'.pc = "clear" \/ active_slot' # active_slot) => active_slot' = undo
<1>1. ASSUME RolloutInv, [RolloutNext]_rolloutVars PROVE [A]_rolloutVars
  <2> SUFFICES ASSUME RolloutNext, script.pc = "switch", script.kind = "rollback", script.from_file,
                      undo # Unset, script' # script,
                      script'.pc = "clear" \/ active_slot' # active_slot
               PROVE  active_slot' = undo
    BY <1>1
  <2>0. script # NoScript
    BY DEF NoScript
  <2>1. script.target = undo
    BY <1>1, <2>0 DEF RolloutInv, FileKnown
  <2>2. (\E answered \in BOOLEAN : Switch(answered)) \/ EndScript
    BY <2>0
    DEF RolloutNext, RouteCall, Forward, CloseLedger, set_admin, set_slot_contract, SwitchByHand,
        set_stable_contract, set_canary_contract, set_canary_weight, StartCutover, ReadCurrent,
        SaveCurrent, StartRollback, CheckTarget, ClearFile
  <2>3. CASE EndScript
    BY <2>3 DEF EndScript, scriptOnly, routerVars, NoScript
  <2>4. ASSUME NEW answered \in BOOLEAN, Switch(answered) PROVE active_slot' = undo
    BY <2>1, <2>4 DEF Switch, set_active_slot
  <2> QED BY <2>2, <2>3, <2>4
<1> QED
  BY RolloutInitInv, RolloutNextInv, <1>1, PTL DEF RolloutSpec, RollbackReverts

=============================================================================
