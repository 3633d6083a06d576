------------------------------- MODULE Closer -------------------------------
(***************************************************************************)
(* Clean shutdown (closer/closer.go): Register appends to a list without a *)
(* lock, and the goroutine that the first Register starts waits for a      *)
(* signal, closes what is on the list and exits.                           *)
(***************************************************************************)
EXTENDS Naturals, Sequences, SequencesExt, FiniteSets

CONSTANT Closers   (* what is registered, each once, by its own goroutine  *)

VARIABLES
  closers,      (* the list, this.items                                    *)
  register,     (* where each Register stands: "idle", "once", "append"    *)
                (* (it has read the list), "done"                          *)
  readList,     (* the list that it read                                   *)
  listening,    (* once.Do(listen) is done                                 *)
  signalled,    (* a signal is in killchan                                 *)
  closing,      (* the goroutine of listen: "wait", "close", or "exit",    *)
                (* or "crash"                                              *)
  toClose,      (* what it has still to close                              *)
  closed,       (* what it has closed, in that order                       *)
  raced,        (* history: closers whose Register ran at the same time as *)
                (* another or as the reading of the list                   *)
  due           (* history: the others, when the list was read             *)

closerVars == <<closers, register, readList, listening, signalled, closing,
                toClose, closed, raced, due>>

CloserInit ==
  /\ closers = <<>>
  /\ register = [c \in Closers |-> "idle"]
  /\ readList = [c \in Closers |-> <<>>]
  /\ listening = FALSE /\ signalled = FALSE
  /\ closing = "wait"
  /\ toClose = <<>> /\ closed = <<>>
  /\ raced = {} /\ due = {}

Running == closing \in {"wait", "close"}

Appending == {c \in Closers : register[c] = "append"}
-----------------------------------------------------------------------------
(* Register                                                                *)

CallRegister(c) ==
  /\ Running
  /\ register[c] = "idle"
  /\ register' = [register EXCEPT ![c] = "once"]
  /\ listening' = TRUE
  /\ UNCHANGED <<closers, readList, signalled, closing, toClose, closed, raced, due>>

(* append reads the list...                                                *)
ReadItems(c) ==
  /\ Running
  /\ register[c] = "once"
  /\ register' = [register EXCEPT ![c] = "append"]
  /\ readList' = [readList EXCEPT ![c] = closers]
  /\ raced' = IF Appending = {} THEN raced ELSE raced \cup Appending \cup {c}
  /\ UNCHANGED <<closers, listening, signalled, closing, toClose, closed, due>>

(* ...and the list with the new item is stored; what another Register has  *)
(* stored since is lost.                                                   *)
StoreItems(c) ==
  /\ Running
  /\ register[c] = "append"
  /\ register' = [register EXCEPT ![c] = "done"]
  /\ closers' = Append(readList[c], c)
  /\ readList' = [readList EXCEPT ![c] = <<>>]
  /\ UNCHANGED <<listening, signalled, closing, toClose, closed, raced, due>>
-----------------------------------------------------------------------------
(* A signal, which ends the process at once when nobody listens for it     *)
Signal ==
  /\ Running /\ ~signalled
  /\ signalled' = TRUE
  /\ closing' = IF listening THEN closing ELSE "exit"
  /\ UNCHANGED <<closers, register, readList, listening, toClose, closed, raced, due>>

(* range evaluates this.items once.  When two goroutines are at the words  *)
(* of one slice at the same time they may mix, and nothing holds then.     *)
RangeItems ==
  /\ closing = "wait"
  /\ signalled
  /\ raced' = raced \cup Appending
  /\ \/ closing' = "close" /\ toClose' = closers
     \/ closing' = "crash" /\ raced' # {} /\ UNCHANGED toClose
  /\ due' = {c \in Closers : register[c] = "done"} \ raced
  /\ UNCHANGED <<closers, register, readList, listening, signalled, closed>>

CloseItem ==
  /\ closing = "close"
  /\ toClose # <<>>
  /\ closed' = Append(closed, Head(toClose))
  /\ toClose' = Tail(toClose)
  /\ UNCHANGED <<closers, register, readList, listening, signalled, closing, raced, due>>

(* Mutant: os.Exit does not wait until all are closed.                     *)
ExitAtOnce ==
  /\ closing = "close"
  /\ closing' = "exit"
  /\ UNCHANGED <<closers, register, readList, listening, signalled, toClose, closed, raced, due>>

Exit ==
  /\ closing = "close"
  /\ toClose = <<>>
  /\ closing' = "exit"
  /\ UNCHANGED <<closers, register, readList, listening, signalled, toClose, closed, raced, due>>

CloserNext ==
  \/ \E c \in Closers : CallRegister(c) \/ ReadItems(c) \/ StoreItems(c)
  \/ Signal \/ RangeItems \/ CloseItem \/ Exit

CloserSpec == CloserInit /\ [][CloserNext]_closerVars
-----------------------------------------------------------------------------
(* When the process exits after a signal, whatever was registered before   *)
(* the list was read, by a Register that overlapped with no other, is      *)
(* closed, and nothing is closed twice; overlapping calls lose at most what *)
(* they themselves register.                                               *)
RegisteredAreClosed ==
  closing = "exit" =>
    /\ due \subseteq ToSet(closed)
    /\ Cardinality(ToSet(closed)) = Len(closed)
=============================================================================
