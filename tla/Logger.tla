------------------------------- MODULE Logger -------------------------------
(***************************************************************************)
(* The logger (log/logger.go): Emit sends into inchan, one goroutine       *)
(* forwards each event to the channels that listen, without waiting for    *)
(* them, and holds the lock meanwhile; Listen and Unlisten change the list *)
(* under the same lock.  An event is a pair <<emitter, its number>>.       *)
(***************************************************************************)
EXTENDS Slices, Naturals, Sequences, SequencesExt

CONSTANTS
  Emitters, Listeners,   (* goroutines; each listener has its own channel  *)
  InCap,       (* capacity of inchan (10)                                  *)
  OutCap,      (* capacity of every listener's channel                     *)
  MaxEvents,   (* bound: events of each emitter                            *)
  MaxOut       (* bound: length of outchans                                *)

(* Who holds the lock, when no listener does.                              *)
Free == "free"
Fwd  == "forwarder"

ASSUME LoggerAssumption ==
  /\ {InCap, OutCap, MaxOut} \subseteq Nat \ {0}
  /\ MaxEvents \in [Emitters -> Nat]
  /\ {Free, Fwd} \cap Listeners = {}

VARIABLES
  inchan,
  outchans,
  lock,      (* who holds the mutex                                        *)
  fwd,       (* where the forwarding goroutine stands: "receive", "lock",  *)
             (* "send"                                                     *)
  event,     (* the event it forwards                                      *)
  outs,      (* the channels it has still to offer it to                   *)
  emitter,   (* "idle" or "emit"                                           *)
  emits,     (* calls of Emit that each emitter has made                   *)
  listener,  (* "off", "on", or inside "listen" or "unlisten"              *)
  unread,    (* events in each listener's channel                          *)
  last,      (* history: the number of the last event of each emitter that *)
             (* was put in it                                              *)
  owed       (* history: listeners that were on when the forwarder took    *)
             (* the lock and to which it has not yet offered the event     *)

histVars == <<last, owed>>
vars == <<inchan, outchans, lock, fwd, event, outs, emitter, emits, listener, unread, histVars>>

Init ==
  /\ inchan = <<>> /\ outchans = <<>>
  /\ lock = Free
  /\ fwd = "receive"
  /\ event = <<>>
  /\ outs = <<>>
  /\ emitter = [e \in Emitters |-> "idle"]
  /\ emits = [e \in Emitters |-> 0]
  /\ listener = [c \in Listeners |-> "off"]
  /\ unread = [c \in Listeners |-> 0]
  /\ last = [c \in Listeners |-> [e \in Emitters |-> 0]]
  /\ owed = {}
-----------------------------------------------------------------------------
(* Emit, also through Write                                                *)

CallEmit(e) ==
  /\ emitter[e] = "idle"
  /\ emits[e] < MaxEvents[e]
  /\ emitter' = [emitter EXCEPT ![e] = "emit"]
  /\ emits' = [emits EXCEPT ![e] = @ + 1]
  /\ UNCHANGED <<inchan, outchans, lock, fwd, event, outs, listener, unread, histVars>>

Emit(e) ==
  /\ emitter[e] = "emit"
  /\ Len(inchan) < InCap
  /\ inchan' = Append(inchan, <<e, emits[e]>>)
  /\ emitter' = [emitter EXCEPT ![e] = "idle"]
  /\ UNCHANGED <<outchans, lock, fwd, event, outs, emits, listener, unread, histVars>>
-----------------------------------------------------------------------------
(* The goroutine that NewLogger starts                                     *)

Receive ==
  /\ fwd = "receive"
  /\ inchan # <<>>
  /\ event' = Head(inchan)
  /\ inchan' = Tail(inchan)
  /\ fwd' = "lock"
  /\ UNCHANGED <<outchans, lock, outs, emitter, emits, listener, unread, histVars>>

Forward ==
  /\ fwd = "lock"
  /\ fwd' = "send"
  /\ outs' = outchans
  /\ owed' = {c \in Listeners : listener[c] = "on"}

(* Mutant: without the lock.                                               *)
NoLock ==
  /\ Forward
  /\ UNCHANGED <<inchan, outchans, lock, event, emitter, emits, listener, unread, last>>

Lock ==
  /\ Forward
  /\ lock = Free
  /\ lock' = Fwd
  /\ UNCHANGED <<inchan, outchans, event, emitter, emits, listener, unread, last>>

(* Mutant: the goroutine waits for room in the listener's channel.         *)
OfferWaits ==
  LET c == Head(outs)
  IN  /\ fwd = "send"
      /\ outs # <<>>
      /\ unread[c] < OutCap
      /\ unread' = [unread EXCEPT ![c] = @ + 1]
      /\ last' = [last EXCEPT ![c][event[1]] = event[2]]
      /\ outs' = Tail(outs)
      /\ owed' = owed \ {c}
      /\ UNCHANGED <<inchan, outchans, lock, fwd, event, emitter, emits, listener>>

Offer ==
  LET c == Head(outs)
  IN  /\ fwd = "send"
      /\ outs # <<>>
      /\ \/ /\ unread[c] < OutCap
            /\ unread' = [unread EXCEPT ![c] = @ + 1]
            /\ last' = [last EXCEPT ![c][event[1]] = event[2]]
         \/ /\ unread[c] = OutCap
            /\ UNCHANGED <<unread, last>>
      /\ outs' = Tail(outs)
      /\ owed' = owed \ {c}
      /\ UNCHANGED <<inchan, outchans, lock, fwd, event, emitter, emits, listener>>

Unlock ==
  /\ fwd = "send"
  /\ outs = <<>>
  /\ lock' = Free
  /\ fwd' = "receive"
  /\ UNCHANGED <<inchan, outchans, event, outs, emitter, emits, listener, unread, histVars>>
-----------------------------------------------------------------------------
(* The listeners                                                           *)

Takes(c, from, to) ==
  /\ listener[c] \in from
  /\ lock = Free
  /\ lock' = c
  /\ listener' = [listener EXCEPT ![c] = to]
  /\ UNCHANGED <<inchan, outchans, fwd, event, outs, emitter, emits, unread, histVars>>

Gives(c, from, to) ==
  /\ listener[c] = from
  /\ lock = c
  /\ lock' = Free
  /\ listener' = [listener EXCEPT ![c] = to]
  /\ UNCHANGED <<inchan, fwd, event, outs, emitter, emits, unread, histVars>>

CallListen(c) ==
  /\ Len(outchans) < MaxOut
  /\ Takes(c, {"off", "on"}, "listen")

Listen(c) ==
  /\ outchans' = Append(outchans, c)
  /\ Gives(c, "listen", "on")

CallUnlisten(c) == Takes(c, {"wantsOff"}, "unlisten")

(* From here the listener waits for the lock.                              *)
Leave(c) ==
  /\ listener[c] = "on"
  /\ listener' = [listener EXCEPT ![c] = "wantsOff"]
  /\ UNCHANGED <<inchan, outchans, lock, fwd, event, outs, emitter, emits, unread, histVars>>

(* Mutant: the entries after it go too.                                    *)
RemoveTail(c) ==
  IF Contains(outchans, c)
  THEN SubSeq(outchans, 1, SelectInSeq(outchans, LAMBDA d : d = c) - 1) ELSE outchans

(* remove: every entry of the channel goes, the others keep their order    *)
WithoutChan(c) == Keep(outchans, Listeners \ {c})

Unlisten(c) ==
  /\ outchans' = WithoutChan(c)
  /\ Gives(c, "unlisten", "off")

Read(c) ==
  /\ unread[c] > 0
  /\ unread' = [unread EXCEPT ![c] = @ - 1]
  /\ UNCHANGED <<inchan, outchans, lock, fwd, event, outs, emitter, emits, listener, histVars>>

ForwarderStep == Receive \/ Lock \/ Offer \/ Unlock

Next ==
  \/ ForwarderStep
  \/ \E e \in Emitters : CallEmit(e) \/ Emit(e)
  \/ \E c \in Listeners : CallListen(c) \/ Listen(c) \/ Leave(c) \/ CallUnlisten(c)
                          \/ Unlisten(c) \/ Read(c)

Spec == Init /\ [][Next]_vars

(* Goroutines are scheduled, a channel serves its waiting senders in turn  *)
(* and the mutex does not pass over a waiting goroutine for ever.  Nobody  *)
(* need ever read.                                                         *)
LoggerFairness ==
  /\ WF_vars(Receive \/ Offer \/ Unlock) /\ SF_vars(Lock)
  /\ \A e \in Emitters : SF_vars(Emit(e))
  /\ \A c \in Listeners : WF_vars(Listen(c)) /\ WF_vars(Unlisten(c)) /\ SF_vars(CallUnlisten(c))

FairSpec == Spec /\ LoggerFairness
-----------------------------------------------------------------------------
Events == UNION {{e} \X (1..MaxEvents[e]) : e \in Emitters}

TypeOK ==
  /\ inchan \in Seq(Events) /\ Len(inchan) <= InCap
  /\ outchans \in Seq(Listeners) /\ Len(outchans) <= MaxOut
  /\ lock \in Listeners \cup {Free, Fwd}
  /\ fwd \in {"receive", "lock", "send"}
  /\ outs \in Seq(Listeners)
  /\ emitter \in [Emitters -> {"idle", "emit"}]
  /\ \A e \in Emitters : emits[e] \in 0..MaxEvents[e]
  /\ listener \in [Listeners -> {"off", "listen", "on", "wantsOff", "unlisten"}]
  /\ unread \in [Listeners -> 0..OutCap]
  /\ owed \subseteq Listeners

(* A listener gets the events of an emitter in the order of its calls, and *)
(* of the events taken up while it listened it misses none but those for   *)
(* which its channel was full, whoever else comes, comes twice or leaves.  *)
DeliveredInOrder ==
  [][\A c \in Listeners :
       /\ \A e \in Emitters : last'[c][e] >= last[c][e]
       /\ fwd = "send" /\ fwd' # "send" => c \notin owed]_vars

(* After Unlisten has returned nothing more is put in the channel, so its  *)
(* owner may close it.                                                     *)
NothingAfterUnlisten ==
  [][\A c \in Listeners : listener[c] = "off" => unread'[c] <= unread[c]]_vars

(* No listener, however slow, keeps a goroutine in Emit, and none waits    *)
(* for ever in Unlisten for the lock that the forwarder holds.             *)
NobodyWaitsForListeners ==
  /\ \A e \in Emitters : emitter[e] = "emit" ~> emitter[e] = "idle"
  /\ \A c \in Listeners : listener[c] = "wantsOff" ~> listener[c] = "off"
=============================================================================
