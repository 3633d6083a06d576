------------------------------ MODULE Session ------------------------------
(***************************************************************************)
(* Sessions of html pages: the filter Session (cheshire/filters.go), flash *)
(* messages (cheshire/html.go) and the cache that keeps the sessions       *)
(* (cheshire/impl/gocache/cache.go).  A request loads its session before   *)
(* the controller and saves it before it writes; nothing holds the session *)
(* in between, and browsers may have several requests under way.           *)
(*                                                                         *)
(* The cookie session_id is set without a path, so that a browser keeps    *)
(* one for each directory of the site (RFC 6265, 5.1.4): that of the page, *)
(* and sends with a request the one of the longest directory around it.    *)
(*                                                                         *)
(* What a request stores is named by the request: a datum or a flash       *)
(* message x was put by request x, and x is also the id that SessionId     *)
(* gives when request x needs one, as it never gives the same id twice.    *)
(***************************************************************************)
EXTENDS Naturals, FiniteSets

CONSTANTS
  Reqs,        (* html requests                                            *)
  Browsers,
  BrowserOf,   (* the browser that sends each request                      *)
  Dirs,        (* the directories of the pages                             *)
  DirOf,       (* the directory of the page of each request                *)
  Around,      (* all around it, and the page itself if it is one too      *)
  Longer(_, _),(* the first of two directories is the longer one           *)
  NoId,        (* no cookie                                                *)
  Overlap,     (* a browser may send a request before the last is answered *)
  MaxWrites    (* bound: how often the handler of a request writes         *)

ASSUME SessionAssumption ==
  /\ BrowserOf \in [Reqs -> Browsers] /\ NoId \notin Reqs
  /\ DirOf \in [Reqs -> Dirs] /\ Around \in [Reqs -> SUBSET Dirs]
  /\ Overlap \in BOOLEAN /\ MaxWrites \in Nat

VARIABLES
  cache,      (* the sessions in the cache, by id                          *)
  cookie,     (* the cookies session_id in each browser, by directory      *)
  pc,         (* where each request stands                                 *)
  asked,      (* the cookie each request carries                           *)
  sess,       (* txn.Session of each request                               *)
  writes,     (* how often each handler wrote; the header is sent once     *)
  given,      (* the cookie in the header of each answer                   *)
  latest,     (* history: for each cookie, what the last page left that    *)
              (* had its session                                           *)
  overlapped, (* history: browsers that had two requests under way         *)
  strayed,    (* history: sessions whose cookie the browser lost: it       *)
              (* expired, or never got, as the header was sent before, or  *)
              (* replaced with an answer to a request that did not carry   *)
              (* it or that overlapped another                             *)
  shown       (* history: how many pages showed each flash message         *)

answer   == <<writes, given>>
histVars == <<latest, overlapped, strayed, shown>>
vars == <<cache, cookie, pc, asked, sess, answer, histVars>>

Ids == Reqs

(* The key session_id apart, which is always there: the data, the slice    *)
(* _flash and the flag _persisted.                                         *)
Content == [data : SUBSET Reqs, flash : SUBSET Reqs, persisted : BOOLEAN]
Nothing == [data |-> {}, flash |-> {}, persisted |-> FALSE]
Absent  == [absent |-> TRUE]

(* txn.Session, with the key delete_session                                *)
Sess    == [id : Ids \cup {NoId}, c : Content, delete : BOOLEAN]
Fresh   == [id |-> NoId, c |-> Nothing, delete |-> FALSE]

NoneYet == [id |-> NoId, data |-> {}, flash |-> {}]

Init ==
  /\ cache = [i \in Ids |-> Absent]
  /\ cookie = [b \in Browsers |-> [d \in Dirs |-> NoId]]
  /\ pc = [r \in Reqs |-> "idle"]
  /\ asked = [r \in Reqs |-> NoId]
  /\ sess = [r \in Reqs |-> Fresh]
  /\ writes = [r \in Reqs |-> 0]
  /\ given = [r \in Reqs |-> NoId]
  /\ latest = [b \in Browsers |-> [d \in Dirs |-> NoneYet]]
  /\ overlapped = {}
  /\ strayed = {}
  /\ shown = [r \in Reqs |-> 0]

Goto(r, from, to) ==
  /\ pc[r] = from
  /\ pc' = [pc EXCEPT ![r] = to]

Busy(b) == \E r \in Reqs : BrowserOf[r] = b /\ pc[r] \notin {"idle", "done"}
-----------------------------------------------------------------------------
(* The browsers (external).                                                *)

(* The directories whose cookie the browser of r would send with it: the   *)
(* longest of those that have one, or none                                 *)
Longest(r) ==
  LET kept == {d \in Around[r] : cookie[BrowserOf[r]][d] # NoId}
  IN  {d \in kept : \A e \in kept : ~Longer(e, d)}

Send(r) ==
  LET b == BrowserOf[r]
  IN  /\ Goto(r, "idle", "before")
      /\ Busy(b) => Overlap
      /\ overlapped' = IF Busy(b) THEN overlapped \cup {b} ELSE overlapped
      /\ \/ Longest(r) = {} /\ asked' = [asked EXCEPT ![r] = NoId]
         \/ \E d \in Longest(r) : asked' = [asked EXCEPT ![r] = cookie[b][d]]
      /\ UNCHANGED <<cache, cookie, sess, answer, latest, strayed, shown>>

(* The answer arrives, in any order, with or without a cookie, which the   *)
(* browser keeps for the directory of the page.                            *)
Answered(r) ==
  LET b   == BrowserOf[r]
      old == cookie[b][DirOf[r]]
  IN  /\ Goto(r, "reply", "done")
      /\ cookie' = IF given[r] = NoId THEN cookie
                   ELSE [cookie EXCEPT ![b][DirOf[r]] = given[r]]
      /\ strayed' = IF \/ given[r] = NoId \/ old \in {NoId, given[r]}
                       \/ old = asked[r] /\ b \notin overlapped
                    THEN strayed ELSE strayed \cup {old}
      /\ asked' = [asked EXCEPT ![r] = NoId]
      /\ given' = [given EXCEPT ![r] = NoId]
      /\ UNCHANGED <<cache, sess, writes, latest, overlapped, shown>>

(* A request under way carries the cookie it was sent with, so a cookie    *)
(* may as well expire before it or after it.                               *)
CookieExpires(b, d) ==
  /\ cookie[b][d] # NoId
  /\ ~Busy(b)
  /\ cookie' = [cookie EXCEPT ![b][d] = NoId]
  /\ latest' = [latest EXCEPT ![b][d] = NoneYet]
  /\ strayed' = strayed \cup {cookie[b][d]}
  /\ UNCHANGED <<cache, pc, asked, sess, answer, overlapped, shown>>
-----------------------------------------------------------------------------
(* Session.Before                                                          *)

(* The request has a cookie, and the cache a session for it.               *)
Known(r) == asked[r] # NoId /\ cache[asked[r]] # Absent

(* otherwise: a new id and an empty session                                *)
NewSession(r) ==
  /\ ~Known(r)
  /\ Goto(r, "before", "run")
  /\ sess' = [sess EXCEPT ![r].id = r]
  /\ UNCHANGED <<cache, cookie, asked, answer, histVars>>

(* Mutant: any session of the cache is loaded.                             *)
LoadAny(r) ==
  /\ asked[r] # NoId
  /\ \E i \in Ids : /\ cache[i] # Absent
                    /\ sess' = [sess EXCEPT ![r] =
                                  [id |-> asked[r], c |-> cache[i], delete |-> FALSE]]
  /\ Goto(r, "before", "run")
  /\ UNCHANGED <<cache, cookie, asked, answer, histVars>>

LoadSession(r) ==
  /\ Known(r)
  /\ Goto(r, "before", "run")
  /\ sess' = [sess EXCEPT ![r] =
                [id |-> asked[r], c |-> cache[asked[r]], delete |-> FALSE]]
  /\ UNCHANGED <<cache, cookie, asked, answer, histVars>>
-----------------------------------------------------------------------------
(* The handler (the application's code) asks for the session to be deleted, *)
(* or removes what it finds, puts a datum, calls Flash: some, all or none. *)

Handle(r) ==
  /\ Goto(r, "run", "write")
  /\ \/ sess' = [sess EXCEPT ![r].delete = TRUE]
     \/ \E kept \in {{}, sess[r].c.data}, put \in SUBSET {r}, flash \in SUBSET {r} :
          sess' = [sess EXCEPT ![r].c.data = kept \cup put, ![r].c.flash = @ \cup flash]
  /\ UNCHANGED <<cache, cookie, asked, answer, histVars>>

MayWrite(r) == writes[r] < MaxWrites

(* Mutant: contxt leaves the messages it shows in the session.             *)
RenderKeeps(r) ==
  /\ MayWrite(r)
  /\ Goto(r, "write", "save")
  /\ shown' = [x \in Reqs |-> IF x \in sess[r].c.flash THEN shown[x] + 1 ELSE shown[x]]
  /\ UNCHANGED <<cache, cookie, asked, sess, answer, latest, overlapped, strayed>>

(* Render: contxt gives the messages to the page and removes them, before  *)
(* writeResponse calls beforeWrite.                                        *)
Render(r) ==
  /\ MayWrite(r)
  /\ Goto(r, "write", "save")
  /\ shown' = [x \in Reqs |-> IF x \in sess[r].c.flash THEN shown[x] + 1 ELSE shown[x]]
  /\ sess' = [sess EXCEPT ![r].c.flash = {}]
  /\ UNCHANGED <<cache, cookie, asked, answer, latest, overlapped, strayed>>

Redirect(r) ==
  /\ MayWrite(r)
  /\ Goto(r, "write", "save")
  /\ UNCHANGED <<cache, cookie, asked, sess, answer, histVars>>

Wrote(r) == writes' = [writes EXCEPT ![r] = @ + 1]

(* SendError and Txn.Write do not call beforeWrite: the header goes out    *)
(* and nothing is saved.  The handler may still render a page, or redirect. *)
WriteWithoutSaving(r) ==
  /\ MayWrite(r)
  /\ Goto(r, "write", "write")
  /\ Wrote(r)
  /\ UNCHANGED <<cache, cookie, asked, sess, given, histVars>>

(* The handler returns, and net/http ends the answer.                      *)
Return(r) ==
  /\ Goto(r, "write", "reply")
  /\ sess' = [sess EXCEPT ![r] = Fresh]
  /\ writes' = [writes EXCEPT ![r] = 0]
  /\ UNCHANGED <<cache, cookie, asked, given, histVars>>
-----------------------------------------------------------------------------
(* Session.BeforeHtmlWrite, and then the header, which net/http sends only *)
(* once: a cookie set on it after that is not sent.                        *)

(* Mutant: the header is written before the hooks are called.              *)
HeaderBeforeHooks(r, i) == given' = given

(* The cookie of session i is put in the header.                           *)
SetCookie(r, i) ==
  given' = IF writes[r] = 0 THEN [given EXCEPT ![r] = i] ELSE given

(* The page of r leaves this in its session: for each cookie of the        *)
(* browser with the session, and for the one that it gets with the answer. *)
Leaves(r, data, flash) ==
  LET b == BrowserOf[r]
      i == sess[r].id
  IN  latest' = [latest EXCEPT ![b] =
        [d \in Dirs |-> IF cookie[b][d] = i \/ (d = DirOf[r] /\ given[r]' = i)
                        THEN [id |-> i, data |-> data, flash |-> flash] ELSE latest[b][d]]]

(* The browser has the cookie of the request's session, or gets it: it is  *)
(* in the header, or the header is still to be sent.                       *)
Knows(r) == writes[r] = 0 \/ sess[r].id \in {asked[r], given[r]}

Told(r, data, flash) ==
  /\ Leaves(r, data, flash)
  /\ strayed' = IF Knows(r) THEN strayed ELSE strayed \cup {sess[r].id}

(* the cookie is written without an age: the browser keeps it              *)
DeleteSession(r) ==
  /\ sess[r].delete
  /\ Goto(r, "save", "write")
  /\ cache' = [cache EXCEPT ![sess[r].id] = Absent]
  /\ SetCookie(r, sess[r].id)
  /\ Told(r, {}, {})
  /\ Wrote(r)
  /\ UNCHANGED <<cookie, asked, sess, overlapped, shown>>

(* Mutant: without the flag _persisted.                                    *)
EmptyNow(c) == c.data = {} /\ c.flash = {}

(* len(txn.Session.Map) > 1 does not hold                                  *)
Empty(c) == c = Nothing

SaveSession(r) ==
  /\ ~sess[r].delete
  /\ ~Empty(sess[r].c)
  /\ Goto(r, "save", "write")
  /\ sess' = [sess EXCEPT ![r].c.persisted = TRUE]
  /\ cache' = [cache EXCEPT ![sess[r].id] = sess'[r].c]
  /\ SetCookie(r, sess[r].id)
  /\ Told(r, sess[r].c.data, sess[r].c.flash)
  /\ Wrote(r)
  /\ UNCHANGED <<cookie, asked, overlapped, shown>>

SkipSave(r) ==
  /\ ~sess[r].delete
  /\ Empty(sess[r].c)
  /\ Goto(r, "save", "write")
  /\ given' = given
  /\ Leaves(r, {}, {})
  /\ Wrote(r)
  /\ UNCHANGED <<cache, cookie, asked, sess, overlapped, strayed, shown>>
-----------------------------------------------------------------------------
(* The cache drops a session whose age is reached.                         *)
Expire(i) ==
  /\ cache[i] # Absent
  /\ cache' = [cache EXCEPT ![i] = Absent]
  /\ latest' = [b \in Browsers |-> [d \in Dirs |->
                  IF latest[b][d].id = i THEN NoneYet ELSE latest[b][d]]]
  /\ UNCHANGED <<cookie, pc, asked, sess, answer, overlapped, strayed, shown>>

RequestStep(r) ==
  \/ NewSession(r) \/ LoadSession(r) \/ Handle(r)
  \/ Render(r) \/ Redirect(r) \/ WriteWithoutSaving(r) \/ Return(r)
  \/ DeleteSession(r) \/ SaveSession(r) \/ SkipSave(r)

Next ==
  \/ \E r \in Reqs : Send(r) \/ RequestStep(r) \/ Answered(r)
  \/ \E b \in Browsers, d \in Dirs : CookieExpires(b, d)
  \/ \E i \in Ids : Expire(i)

Spec == Init /\ [][Next]_vars
-----------------------------------------------------------------------------
TypeOK ==
  /\ cache \in [Ids -> Content \cup {Absent}]
  /\ cookie \in [Browsers -> [Dirs -> Ids \cup {NoId}]]
  /\ pc \in [Reqs -> {"idle", "before", "run", "write", "save", "reply", "done"}]
  /\ asked \in [Reqs -> Ids \cup {NoId}]
  /\ sess \in [Reqs -> Sess]
  /\ writes \in [Reqs -> 0..MaxWrites]
  /\ given \in [Reqs -> Ids \cup {NoId}]
  /\ latest \in [Browsers -> [Dirs -> [id : Ids \cup {NoId}, data : SUBSET Reqs,
                                       flash : SUBSET Reqs]]]
  /\ overlapped \subseteq Browsers /\ strayed \subseteq Ids
  /\ shown \in [Reqs -> Nat]
  /\ \A r \in Reqs : pc[r] \in {"run", "write", "save"} => sess[r].id # NoId

(* A request sees what requests of its own browser stored, and no other,   *)
(* however the requests of all browsers interleave.                        *)
SessionsPrivate ==
  \A r \in Reqs : \A x \in sess[r].c.data \cup sess[r].c.flash :
    BrowserOf[x] = BrowserOf[r]

(* When a browser that sends one request at a time has no request under    *)
(* way, the next one will load, with whichever of the cookies it carries,  *)
(* what the last page left that had the session of this cookie, removals   *)
(* included, or nothing when the session was deleted or has expired.       *)
(* Pages of different directories may have different sessions.             *)
Stored(i) == IF i # NoId /\ cache[i] # Absent THEN cache[i] ELSE Nothing
LoadsLatest ==
  \A b \in Browsers, d \in Dirs : b \notin overlapped /\ ~Busy(b) =>
    /\ Stored(cookie[b][d]).data = latest[b][d].data
    /\ Stored(cookie[b][d]).flash = latest[b][d].flash

(* Such a browser shows a flash message on one page at most.               *)
FlashShownOnce ==
  \A x \in Reqs : BrowserOf[x] \notin overlapped => shown[x] <= 1

(* The cookie of every session in the cache is in its browser or on its    *)
(* way there, also with requests that overlap.  A save leaves a session    *)
(* behind that the browser will never find again in these cases only: the  *)
(* handler wrote something before the page, the browser forgot the cookie, *)
(* or an answer replaced it, to a request that did not carry it (the first *)
(* ones that overlap, or one for a page with the name of a directory) or   *)
(* that overlapped another.                                                *)
SessionsReachable ==
  \A i \in Ids :
    cache[i] # Absent /\ i \notin strayed =>
      \/ \E d \in Dirs : cookie[BrowserOf[i]][d] = i
      \/ \E r \in Reqs : given[r] = i
=============================================================================
