------------------------------- MODULE Router -------------------------------
(***************************************************************************)
(* From a method and a path to a controller (cheshire/router.go).  Paths   *)
(* and patterns are sequences of bytes.  The maps of the router are given by *)
(* their entries, pairs of a method and a controller, of which no two have *)
(* the same method and pattern.                                            *)
(***************************************************************************)
EXTENDS Naturals, Sequences, SequencesExt, FiniteSets

CONSTANTS
  Controllers,
  Route,       (* the pattern of each controller                           *)
  Methods,     (* the methods it is registered for                         *)
  Slash,       (* the byte '/'                                             *)
  NotFound     (* the NotFoundHandler                                      *)

ASSUME RouterAssumption ==
  /\ NotFound \notin Controllers /\ IsFiniteSet(Controllers)
  /\ \A c \in Controllers : Len(Route[c]) \in Nat

(* getMethodMap knows these, in whatever case.                             *)
ValidMethods == {"GET", "POST", "PUT", "DELETE"}
MethodMap(routes, method) == {c \in Controllers : <<method, c>> \in routes}

EntriesOf(c) == Methods[c] \X {c}

(* reg panics.                                                             *)
Refused(routes, c) ==
  \/ ~(Methods[c] \subseteq ValidMethods)
  \/ Route[c] = <<>>
  \/ \E m \in Methods[c] : \E d \in MethodMap(routes, m) : Route[d] = Route[c]

PathMatch(pattern, path) ==
  /\ pattern # <<>>
  /\ IF Last(pattern) # Slash THEN pattern = path ELSE IsPrefix(pattern, path)

(* Mutant: the first that matches is kept.                                 *)
FirstMatch(h, c, path) == IF h = NotFound /\ PathMatch(Route[c], path) THEN c ELSE h

(* One turn of the loop of match: h is the best controller so far.         *)
Better(h, c, path) ==
  IF PathMatch(Route[c], path) /\ (h = NotFound \/ Len(Route[c]) > Len(Route[h]))
  THEN c ELSE h

(* The loop over the entries of the map, in the order o                    *)
Best(o, path) ==
  LET best[i \in 0..Len(o)] ==
        IF i = 0 THEN NotFound ELSE Better(best[i - 1], o[i], path)
  IN  best[Len(o)]

(* A Go map is ranged over in any order: the controllers that Match may    *)
(* return.                                                                 *)
Match(routes, method, path) ==
  LET m == MethodMap(routes, method)
      Orders == {o \in [1..Cardinality(m) -> m] : ToSet(o) = m}
  IN  {Best(o, path) : o \in Orders}
=============================================================================
