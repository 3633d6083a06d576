--------------------------- MODULE SessionProofs ---------------------------
(***************************************************************************)
(* Sessions, for any number of requests and browsers: a session is seen by *)
(* the requests of its own browser only; a browser that sends one request  *)
(* at a time finds what its last page left and sees a flash message once;  *)
(* and no session is saved where its browser will not find it, but for the *)
(* cases that strayed names.                                               *)
(***************************************************************************)
EXTENDS Session, TLAPS

(* The request that gave an id to a session is of the browser that may     *)
(* carry it.                                                               *)
OfBrowser(i, b) == i # NoId => BrowserOf[i] = b

Owned ==
  /\ \A i \in Ids : cache[i] # Absent =>
       \A x \in cache[i].data \cup cache[i].flash : BrowserOf[x] = BrowserOf[i]
  /\ \A b \in Browsers, d \in Dirs : OfBrowser(cookie[b][d], b)
  /\ \A r \in Reqs : /\ OfBrowser(asked[r], BrowserOf[r])
                     /\ OfBrowser(given[r], BrowserOf[r])
                     /\ OfBrowser(sess[r].id, BrowserOf[r])
  /\ SessionsPrivate

Active(r)   == pc[r] \in {"run", "write", "save"}
UnderWay(r) == pc[r] \notin {"idle", "done"}

(* A request answers with the session it has: the one it carried the       *)
(* cookie of, or a new one.                                                *)
Steady ==
  \A r \in Reqs :
    /\ pc[r] \notin {"write", "save", "reply"} => given[r] = NoId
    /\ Active(r) => /\ sess[r].id \in {asked[r], r}
                    /\ given[r] \in {NoId, sess[r].id}
    /\ ~Active(r) => sess[r] = Fresh

(* Another than request r meets the id r only when r is answered.          *)
Fledged(i) == i # NoId => pc[i] = "done"

Named ==
  /\ \A b \in Browsers, d \in Dirs : Fledged(cookie[b][d])
  /\ \A r \in Reqs : /\ Fledged(asked[r])
                     /\ given[r] # r => Fledged(given[r])
                     /\ sess[r].id # r => Fledged(sess[r].id)
  /\ \A i \in Ids : cache[i] # Absent => pc[i] \in {"write", "save", "reply", "done"}

(* The flag _persisted: a session without it is not in the cache yet.      *)
Flagged ==
  /\ \A i \in Ids : cache[i] # Absent => cache[i].persisted
  /\ \A r \in Reqs : Active(r) /\ ~sess[r].c.persisted =>
       /\ sess[r].id = r /\ cache[r] = Absent
       /\ ~sess[r].delete => given[r] = NoId

(* A browser that has sent one request at a time.                          *)
Single(b) == b \in Browsers \ overlapped

(* A request that ends with another session than it carried the cookie of  *)
(* found none in the cache.                                                *)
Ends(r, i) == \/ Active(r) /\ sess[r].id = i
              \/ pc[r] = "reply" /\ given[r] = i
Alone ==
  \A r \in Reqs : Single(BrowserOf[r]) /\ UnderWay(r) =>
    /\ \A s \in Reqs : BrowserOf[s] = BrowserOf[r] /\ UnderWay(s) => s = r
    /\ \A i \in Ids : Ends(r, i) /\ asked[r] \notin {NoId, i} =>
         cache[asked[r]] = Absent

(* A handler that renders has not written too often.                       *)
TypeInv == TypeOK /\ \A r \in Reqs : pc[r] = "save" => MayWrite(r)

SessInv == TypeInv /\ Owned /\ Steady /\ Named /\ Flagged /\ Alone

(* A flash message is in one session, and after it was shown in none but   *)
(* the one that is about to be saved without it.                           *)
Within(x, i) == cache[i] # Absent /\ x \in cache[i].flash
Has(r, x)    == x \in sess[r].c.flash

Early(x)  == pc[x] \in {"idle", "before", "run"}
Unborn(x) ==
  /\ shown[x] = 0
  /\ \A i \in Ids : ~Within(x, i)
  /\ \A r \in Reqs : ~Has(r, x)

AtMostOnce(x) ==
  /\ shown[x] <= 1
  /\ \A i, j \in Ids : Within(x, i) /\ Within(x, j) => i = j
  /\ \A r \in Reqs : Has(r, x) =>
       shown[x] = 0 /\ \A i \in Ids : Within(x, i) => sess[r].id = i
  /\ \A i \in Ids : Within(x, i) /\ shown[x] = 1 =>
       \E r \in Reqs : BrowserOf[r] = BrowserOf[x] /\ pc[r] = "save" /\ sess[r].id = i

FlashInv ==
  \A x \in Reqs : /\ Early(x) => Unborn(x)
                  /\ Single(BrowserOf[x]) => AtMostOnce(x)

(* The cookie that the browser has for a directory or is about to get, and *)
(* what is kept under it.                                                  *)
Holds(b, d, i) ==
  \/ \E r \in Reqs : BrowserOf[r] = b /\ DirOf[r] = d /\ UnderWay(r) /\ given[r] = i /\ i # NoId
  \/ cookie[b][d] = i /\ \A r \in Reqs : BrowserOf[r] = b /\ DirOf[r] = d => given[r] = NoId

Agrees(b, d, i) ==
  /\ Stored(i).data = latest[b][d].data
  /\ Stored(i).flash = latest[b][d].flash
  /\ latest[b][d].id # i => latest[b][d].data = {} /\ latest[b][d].flash = {}

LatestInv ==
  \A b \in Browsers, d \in Dirs : Single(b) =>
    \A i \in Ids \cup {NoId} : Holds(b, d, i) => Agrees(b, d, i)

(* The browser still has the cookie that a request carries, or lost it.    *)
Kept(b, i) == \E d \in Dirs : cookie[b][d] = i
Carried ==
  \A r \in Reqs : UnderWay(r) /\ asked[r] # NoId =>
    asked[r] \in strayed \/ Kept(BrowserOf[r], asked[r])
-----------------------------------------------------------------------------
LEMMA Contents ==
  /\ Nothing \in Content /\ Absent \notin Content
  /\ \A c \in Content : c.data \subseteq Reqs /\ c.flash \subseteq Reqs
  /\ Fresh \in Sess /\ Fresh.id = NoId /\ Fresh.c = Nothing /\ ~Fresh.delete
  /\ Nothing.data = {} /\ Nothing.flash = {} /\ ~Nothing.persisted
PROOF
<1>1. Absent \notin Content
  <2>1. SUFFICES ASSUME Absent \in Content PROVE FALSE
    OBVIOUS
  <2>2. DOMAIN Absent = {"absent"}
    BY DEF Absent
  <2>3. "data" \in DOMAIN Absent
    BY <2>1 DEF Content
  <2> QED
    BY <2>2, <2>3
<1> QED
  BY <1>1 DEF Content, Nothing, Fresh, Sess, Ids

(* What each handler does to the session of its request, part by part.     *)
SameSess(r) == \A t \in Reqs \ {r} : sess'[t] = sess[t]
SameParts(r) ==
  /\ sess' \in [Reqs -> Sess] /\ SameSess(r)
  /\ sess'[r].id = sess[r].id

LEMMA HandleSess == ASSUME TypeOK, NEW r \in Reqs, Handle(r)
  PROVE  /\ SameParts(r)
         /\ sess'[r].c.persisted = sess[r].c.persisted
         /\ sess[r].delete => sess'[r].delete
         /\ sess'[r].c.data \subseteq sess[r].c.data \cup {r}
         /\ sess'[r].c.flash \subseteq sess[r].c.flash \cup {r}
PROOF
<1>0. sess[r] \in Sess /\ sess[r].c \in Content /\ sess \in [Reqs -> Sess]
  BY DEF TypeOK, Sess
<1>1. CASE sess' = [sess EXCEPT ![r].delete = TRUE]
  <2>1. [sess[r] EXCEPT !.delete = TRUE] \in Sess
    BY <1>0 DEF Sess
  <2>2. sess' = [sess EXCEPT ![r] = [sess[r] EXCEPT !.delete = TRUE]]
    BY <1>0, <1>1
  <2> QED
    BY <1>0, <2>1, <2>2 DEF SameParts, SameSess, Sess
<1>2. ASSUME NEW kept \in {{}, sess[r].c.data}, NEW put \in SUBSET {r},
             NEW flash \in SUBSET {r},
             sess' = [sess EXCEPT ![r].c.data = kept \cup put, ![r].c.flash = @ \cup flash]
      PROVE  /\ SameParts(r)
             /\ sess'[r].c.persisted = sess[r].c.persisted
             /\ sess[r].delete => sess'[r].delete
             /\ sess'[r].c.data \subseteq sess[r].c.data \cup {r}
             /\ sess'[r].c.flash \subseteq sess[r].c.flash \cup {r}
  <2> DEFINE new == [data |-> kept \cup put, flash |-> sess[r].c.flash \cup flash,
                     persisted |-> sess[r].c.persisted]
  <2>1. new \in Content
    BY <1>0 DEF Content
  <2>2. sess'[r] = [id |-> sess[r].id, c |-> new, delete |-> sess[r].delete]
    BY <1>0, <1>2 DEF Sess, Content
  <2>3. sess'[r] \in Sess
    BY <1>0, <2>1, <2>2 DEF Sess
  <2>4. sess' \in [Reqs -> Sess] /\ SameSess(r)
    BY <1>0, <1>2, <2>3 DEF SameSess
  <2> HIDE DEF new
  <2>5. /\ new.data \subseteq sess[r].c.data \cup {r}
        /\ new.flash \subseteq sess[r].c.flash \cup {r}
        /\ new.persisted = sess[r].c.persisted
    BY DEF new
  <2> QED
    BY <2>2, <2>4, <2>5 DEF SameParts
<1> QED
  BY <1>1, <1>2 DEF Handle

LEMMA HandleRest == ASSUME NEW r \in Reqs, Handle(r)
  PROVE  Goto(r, "run", "write") /\ UNCHANGED <<cache, cookie, asked, answer, histVars>>
BY DEF Handle

LEMMA RenderSess == ASSUME TypeOK, NEW r \in Reqs, Render(r)
  PROVE  /\ SameParts(r)
         /\ sess'[r].c.data = sess[r].c.data /\ sess'[r].c.flash = {}
         /\ sess'[r].c.persisted = sess[r].c.persisted
         /\ sess'[r].delete = sess[r].delete
PROOF
<1>0. sess[r] \in Sess /\ sess[r].c \in Content /\ sess \in [Reqs -> Sess]
  BY DEF TypeOK, Sess
<1> DEFINE new == [data |-> sess[r].c.data, flash |-> {}, persisted |-> sess[r].c.persisted]
<1>1. new \in Content
  BY <1>0 DEF Content
<1>2. sess' = [sess EXCEPT ![r].c.flash = {}]
  BY DEF Render
<1>3. sess'[r] = [id |-> sess[r].id, c |-> new, delete |-> sess[r].delete]
  BY <1>0, <1>2 DEF Sess, Content
<1>4. sess'[r] \in Sess
  BY <1>0, <1>1, <1>3 DEF Sess
<1>5. sess' \in [Reqs -> Sess] /\ SameSess(r)
  BY <1>0, <1>2, <1>4 DEF SameSess
<1> QED
  BY <1>3, <1>5 DEF SameParts

LEMMA SaveSess == ASSUME TypeOK, NEW r \in Reqs, SaveSession(r)
  PROVE  /\ SameParts(r) /\ sess[r].id \in Ids
         /\ sess'[r].c.data = sess[r].c.data /\ sess'[r].c.flash = sess[r].c.flash
         /\ sess'[r].c.persisted /\ sess'[r].delete = sess[r].delete
         /\ sess'[r].c \in Content
         /\ cache' \in [Ids -> Content \cup {Absent}]
         /\ \A i \in Ids : cache'[i] = IF i = sess[r].id THEN sess'[r].c ELSE cache[i]
PROOF
<1>0. sess[r] \in Sess /\ sess[r].c \in Content /\ sess \in [Reqs -> Sess]
      /\ cache \in [Ids -> Content \cup {Absent}] /\ sess[r].id \in Ids
  BY DEF TypeOK, Sess, SaveSession, Goto
<1> DEFINE new == [data |-> sess[r].c.data, flash |-> sess[r].c.flash, persisted |-> TRUE]
<1>1. new \in Content
  BY <1>0 DEF Content
<1>2. /\ sess' = [sess EXCEPT ![r].c.persisted = TRUE]
      /\ cache' = [cache EXCEPT ![sess[r].id] = sess'[r].c]
  BY DEF SaveSession
<1>3. sess'[r] = [id |-> sess[r].id, c |-> new, delete |-> sess[r].delete]
  BY <1>0, <1>2 DEF Sess, Content
<1>4. sess'[r] \in Sess /\ sess'[r].c = new
  BY <1>0, <1>1, <1>3 DEF Sess
<1>5. sess' \in [Reqs -> Sess] /\ SameSess(r)
  BY <1>0, <1>2, <1>4 DEF SameSess
<1>6. /\ cache' \in [Ids -> Content \cup {Absent}]
      /\ \A i \in Ids : cache'[i] = IF i = sess[r].id THEN sess'[r].c ELSE cache[i]
  BY <1>0, <1>1, <1>2, <1>4
<1>7. new.data = sess[r].c.data /\ new.flash = sess[r].c.flash /\ new.persisted
  OBVIOUS
<1> HIDE DEF new
<1> QED
  BY <1>0, <1>1, <1>3, <1>4, <1>5, <1>6, <1>7 DEF SameParts

Latests == [id : Ids \cup {NoId}, data : SUBSET Reqs, flash : SUBSET Reqs]

(* Directory by directory: what a page leaves                              *)
LeftAs(r, i, new) ==
  \A b \in Browsers, d \in Dirs :
    latest'[b][d] =
      IF b = BrowserOf[r] /\ (cookie[b][d] = i \/ (d = DirOf[r] /\ given'[r] = i))
      THEN new ELSE latest[b][d]

LEMMA LeavesIs ==
  ASSUME TypeOK, NEW r \in Reqs, sess[r].id \in Ids,
         NEW data \in SUBSET Reqs, NEW flash \in SUBSET Reqs, Leaves(r, data, flash)
  PROVE  /\ latest' \in [Browsers -> [Dirs -> Latests]]
         /\ LeftAs(r, sess[r].id, [id |-> sess[r].id, data |-> data, flash |-> flash])
PROOF
<1>1. latest \in [Browsers -> [Dirs -> Latests]] /\ BrowserOf[r] \in Browsers
  BY SessionAssumption DEF TypeOK, Latests
<1>2. PICK new : new = [id |-> sess[r].id, data |-> data, flash |-> flash]
  OBVIOUS
<1>3. new \in Latests
  BY <1>2 DEF Latests
<1>4. PICK f : f = [d \in Dirs |->
                      IF cookie[BrowserOf[r]][d] = sess[r].id
                         \/ (d = DirOf[r] /\ given'[r] = sess[r].id)
                      THEN new ELSE latest[BrowserOf[r]][d]]
  OBVIOUS
<1>5. f \in [Dirs -> Latests]
  BY <1>1, <1>3, <1>4
<1>6. latest' = [latest EXCEPT ![BrowserOf[r]] = f]
  BY <1>2, <1>4 DEF Leaves
<1>7. \A b \in Browsers : latest'[b] = IF b = BrowserOf[r] THEN f ELSE latest[b]
  BY <1>1, <1>6
<1>8. latest' \in [Browsers -> [Dirs -> Latests]]
  BY <1>1, <1>5, <1>6
<1>9. LeftAs(r, sess[r].id, new)
  BY <1>4, <1>7 DEF LeftAs
<1> QED
  BY <1>2, <1>8, <1>9

LEMMA ToldTypes ==
  ASSUME TypeOK, NEW r \in Reqs, sess[r].id \in Ids,
         NEW data \in SUBSET Reqs, NEW flash \in SUBSET Reqs,
         SetCookie(r, sess[r].id), Told(r, data, flash)
  PROVE  /\ given' \in [Reqs -> Ids \cup {NoId}] /\ strayed' \subseteq Ids
         /\ latest' \in [Browsers -> [Dirs -> Latests]]
PROOF
<1>1. given' \in [Reqs -> Ids \cup {NoId}] /\ strayed' \subseteq Ids
  BY DEF TypeOK, SetCookie, Told
<1> QED
  BY <1>1, LeavesIs DEF Told

(* The cookies after an answer, and when one expires                       *)
LEMMA AnswerCookie ==
  ASSUME TypeOK, NEW r \in Reqs, Answered(r)
  PROVE  /\ cookie' \in [Browsers -> [Dirs -> Ids \cup {NoId}]]
         /\ \A b \in Browsers, d \in Dirs :
              cookie'[b][d] = IF given[r] # NoId /\ b = BrowserOf[r] /\ d = DirOf[r]
                              THEN given[r] ELSE cookie[b][d]
PROOF
<1>1. cookie \in [Browsers -> [Dirs -> Ids \cup {NoId}]] /\ given[r] \in Ids \cup {NoId}
  BY DEF TypeOK
<1>2. cookie' = IF given[r] = NoId THEN cookie
                ELSE [cookie EXCEPT ![BrowserOf[r]][DirOf[r]] = given[r]]
  BY DEF Answered
<1>3. BrowserOf[r] \in Browsers /\ DirOf[r] \in Dirs
  BY SessionAssumption
<1> QED
  BY <1>1, <1>2, <1>3

LEMMA ExpireCookie ==
  ASSUME TypeOK, NEW b \in Browsers, NEW d \in Dirs, CookieExpires(b, d)
  PROVE  /\ cookie' \in [Browsers -> [Dirs -> Ids \cup {NoId}]]
         /\ latest' \in [Browsers -> [Dirs -> Latests]]
         /\ \A c \in Browsers, e \in Dirs :
              /\ cookie'[c][e] = IF c = b /\ e = d THEN NoId ELSE cookie[c][e]
              /\ latest'[c][e] = IF c = b /\ e = d THEN NoneYet ELSE latest[c][e]
PROOF
<1>1. cookie \in [Browsers -> [Dirs -> Ids \cup {NoId}]]
  BY DEF TypeOK
<1>2. latest \in [Browsers -> [Dirs -> Latests]]
  BY DEF TypeOK, Latests
<1>3. NoneYet \in Latests
  BY DEF NoneYet, Latests
<1>4. cookie' = [cookie EXCEPT ![b][d] = NoId] /\ latest' = [latest EXCEPT ![b][d] = NoneYet]
  BY DEF CookieExpires
<1>5. /\ cookie' \in [Browsers -> [Dirs -> Ids \cup {NoId}]]
      /\ \A c \in Browsers, e \in Dirs :
           cookie'[c][e] = IF c = b /\ e = d THEN NoId ELSE cookie[c][e]
  BY <1>1, <1>4
<1>6. /\ latest' \in [Browsers -> [Dirs -> Latests]]
      /\ \A c \in Browsers, e \in Dirs :
           latest'[c][e] = IF c = b /\ e = d THEN NoneYet ELSE latest[c][e]
  BY <1>2, <1>3, <1>4
<1> QED
  BY <1>5, <1>6

LEMMA ExpireLatest ==
  ASSUME TypeOK, NEW i \in Ids, Expire(i)
  PROVE  /\ latest' \in [Browsers -> [Dirs -> Latests]]
         /\ \A b \in Browsers, d \in Dirs :
              latest'[b][d] = IF latest[b][d].id = i THEN NoneYet ELSE latest[b][d]
PROOF
<1>1. latest \in [Browsers -> [Dirs -> Latests]] /\ NoneYet \in Latests
  BY DEF TypeOK, NoneYet, Latests
<1> QED
  BY <1>1 DEF Expire

(* The cookie that a request carries is one of its browser.                *)
LEMMA SendAsks ==
  ASSUME TypeOK, NEW r \in Reqs, Send(r)
  PROVE  /\ asked' \in [Reqs -> Ids \cup {NoId}]
         /\ \A q \in Reqs \ {r} : asked'[q] = asked[q]
         /\ asked'[r] = NoId \/ Kept(BrowserOf[r], asked'[r])
PROOF
<1>1. cookie[BrowserOf[r]] \in [Dirs -> Ids \cup {NoId}] /\ Longest(r) \subseteq Dirs
  BY SessionAssumption DEF TypeOK, Longest
<1>2. CASE asked' = [asked EXCEPT ![r] = NoId]
  BY <1>2 DEF TypeOK
<1>3. ASSUME NEW d \in Longest(r), asked' = [asked EXCEPT ![r] = cookie[BrowserOf[r]][d]]
      PROVE  /\ asked' \in [Reqs -> Ids \cup {NoId}]
             /\ \A q \in Reqs \ {r} : asked'[q] = asked[q]
             /\ Kept(BrowserOf[r], asked'[r])
  BY <1>1, <1>3 DEF TypeOK, Kept
<1> QED
  BY <1>2, <1>3 DEF Send

LEMMA NewSessTypes ==
  ASSUME sess \in [Reqs -> Sess], NEW r \in Reqs, NewSession(r)
  PROVE  sess' \in [Reqs -> Sess]
PROOF
<1>1. [sess[r] EXCEPT !.id = r] \in Sess
  BY DEF Sess, Ids
<1>2. sess' = [sess EXCEPT ![r] = [sess[r] EXCEPT !.id = r]]
  BY DEF NewSession
<1> QED
  BY <1>1, <1>2

LEMMA TypeStep == ASSUME TypeInv, [Next]_vars PROVE TypeInv'
PROOF
<1> USE SessionAssumption DEF TypeInv, TypeOK, MayWrite, Ids
<1>1. ASSUME NEW r \in Reqs, Send(r) PROVE TypeInv'
  <2>1. asked' \in [Reqs -> Reqs \cup {NoId}]
    BY <1>1, SendAsks
  <2>2. overlapped' \subseteq Browsers
    BY <1>1 DEF Send
  <2> QED
    BY <1>1, <2>1, <2>2 DEF Send, Goto, answer
<1>2. ASSUME NEW r \in Reqs, Answered(r) PROVE TypeInv'
  <2>1. cookie' \in [Browsers -> [Dirs -> Reqs \cup {NoId}]]
    BY <1>2, AnswerCookie
  <2>2. cookie[BrowserOf[r]][DirOf[r]] \in Reqs \cup {NoId}
    OBVIOUS
  <2>3. strayed' \subseteq Reqs
    BY <1>2, <2>2 DEF Answered
  <2> QED
    BY <1>2, <2>1, <2>3 DEF Answered, Goto
<1>3. ASSUME NEW r \in Reqs, NewSession(r) PROVE TypeInv'
  <2>3. sess' \in [Reqs -> Sess]
    BY <1>3, NewSessTypes
  <2> QED
    BY <1>3, <2>3 DEF NewSession, Goto, answer, histVars
<1>4. ASSUME NEW r \in Reqs, LoadSession(r) PROVE TypeInv'
  BY <1>4, Contents DEF LoadSession, Goto, Known, Sess, Content, NoneYet, Wrote, SetCookie,
    Told, Knows, answer, histVars
<1>5. ASSUME NEW r \in Reqs, Handle(r) PROVE TypeInv'
  <2>1. sess' \in [Reqs -> Sess] /\ \A q \in Reqs : sess'[q].id = sess[q].id
    BY <1>5, HandleSess DEF SameParts, SameSess
  <2> QED
    BY <1>5, <2>1 DEF Handle, Goto, answer, histVars
<1>6. ASSUME NEW r \in Reqs, Render(r) PROVE TypeInv'
  <2>1. sess' \in [Reqs -> Sess] /\ sess'[r].id = sess[r].id /\ SameSess(r)
    BY <1>6, RenderSess DEF SameParts
  <2>2. shown' \in [Reqs -> Nat]
    BY <1>6 DEF Render
  <2> QED
    BY <1>6, <2>1, <2>2 DEF Render, Goto, SameSess, answer
<1>7. ASSUME NEW r \in Reqs, Redirect(r) PROVE TypeInv'
  BY <1>7, Contents DEF Redirect, Goto, Known, Sess, Content, NoneYet, Wrote, SetCookie,
    Told, Knows, answer, histVars
<1>8. ASSUME NEW r \in Reqs, WriteWithoutSaving(r) PROVE TypeInv'
  BY <1>8, Contents DEF WriteWithoutSaving, Goto, Known, Sess, Content, NoneYet, Wrote, SetCookie,
    Told, Knows, answer, histVars
<1>9. ASSUME NEW r \in Reqs, Return(r) PROVE TypeInv'
  BY <1>9, Contents DEF Return, Goto, Known, Sess, Content, NoneYet, Wrote, SetCookie,
    Told, Knows, answer, histVars
<1>10. ASSUME NEW r \in Reqs, DeleteSession(r) PROVE TypeInv'
  <2>1. sess[r].id \in Ids
    BY <1>10 DEF DeleteSession, Goto, Sess
  <2>2. given' \in [Reqs -> Ids \cup {NoId}] /\ strayed' \subseteq Ids
        /\ latest' \in [Browsers -> [Dirs -> Latests]]
    BY <1>10, <2>1, ToldTypes DEF DeleteSession
  <2>3. writes' \in [Reqs -> 0..MaxWrites]
    BY <1>10 DEF DeleteSession, Wrote, Goto
  <2>6. pc' = [pc EXCEPT ![r] = "write"] /\ \A q \in Reqs \ {r} : writes'[q] = writes[q]
    BY <1>10 DEF DeleteSession, Goto, Wrote
  <2>7. \A q \in Reqs : pc'[q] = "save" => writes'[q] < MaxWrites
    BY <2>6
  <2>9. TypeOK'
    BY <1>10, <2>1, <2>2, <2>3, <2>6 DEF DeleteSession, Latests
  <2> QED
    BY <2>7, <2>9
<1>11. ASSUME NEW r \in Reqs, SaveSession(r) PROVE TypeInv'
  <2>1. sess[r].id \in Ids /\ sess[r].c \in Content
    BY <1>11, SaveSess DEF Sess
  <2>2. given' \in [Reqs -> Ids \cup {NoId}] /\ strayed' \subseteq Ids
        /\ latest' \in [Browsers -> [Dirs -> Latests]]
    BY ZenonT(30), <1>11, <2>1, ToldTypes, Contents DEF SaveSession
  <2>3. writes' \in [Reqs -> 0..MaxWrites]
    BY <1>11 DEF SaveSession, Wrote, Goto
  <2>4. sess' \in [Reqs -> Sess] /\ \A q \in Reqs : sess'[q].id = sess[q].id
    BY <1>11, SaveSess DEF SameParts, SameSess
  <2>5. cache' \in [Ids -> Content \cup {Absent}]
    BY <1>11, SaveSess
  <2>6. pc' = [pc EXCEPT ![r] = "write"] /\ \A q \in Reqs \ {r} : writes'[q] = writes[q]
    BY <1>11 DEF SaveSession, Goto, Wrote
  <2>7. \A q \in Reqs : pc'[q] = "save" => writes'[q] < MaxWrites
    BY <2>6
  <2>9. TypeOK'
    BY <1>11, <2>1, <2>2, <2>3, <2>4, <2>5, <2>6 DEF SaveSession, Latests
  <2> QED
    BY <2>7, <2>9
<1>12. ASSUME NEW r \in Reqs, SkipSave(r) PROVE TypeInv'
  <2>1. writes' \in [Reqs -> 0..MaxWrites]
    BY <1>12 DEF SkipSave, Wrote, Goto
  <2>6. pc' = [pc EXCEPT ![r] = "write"] /\ \A q \in Reqs \ {r} : writes'[q] = writes[q]
    BY <1>12 DEF SkipSave, Goto, Wrote
  <2>7. \A q \in Reqs : pc'[q] = "save" => writes'[q] < MaxWrites
    BY <2>6
  <2>8. latest' \in [Browsers -> [Dirs -> Latests]]
    <3>1. sess[r].id \in Ids /\ {} \in SUBSET Reqs /\ Leaves(r, {}, {})
      BY <1>12 DEF SkipSave, Goto, Sess
    <3> QED
      BY <3>1, LeavesIs
  <2>9. TypeOK'
    <3>1. pc' \in [Reqs -> {"idle", "before", "run", "write", "save", "reply", "done"}]
      BY <2>6
    <3>2. \A q \in Reqs : pc'[q] \in {"run", "write", "save"} => sess'[q].id # NoId
      BY <1>12, <2>6 DEF SkipSave, Goto
    <3> QED
      BY <1>12, <2>1, <2>8, <3>1, <3>2 DEF SkipSave, Latests
  <2> QED
    BY <2>7, <2>9
<1>13. ASSUME NEW b \in Browsers, NEW d \in Dirs, CookieExpires(b, d) PROVE TypeInv'
  <2>1. /\ cookie' \in [Browsers -> [Dirs -> Reqs \cup {NoId}]]
        /\ latest' \in [Browsers -> [Dirs -> Latests]]
    BY <1>13, ExpireCookie
  <2>2. strayed' \subseteq Reqs
    BY <1>13 DEF CookieExpires
  <2> QED
    BY <1>13, <2>1, <2>2 DEF CookieExpires, answer, Latests
<1>14. ASSUME NEW i \in Ids, Expire(i) PROVE TypeInv'
  <2>1. latest' \in [Browsers -> [Dirs -> Latests]]
    BY <1>14, ExpireLatest
  <2> QED
    BY <1>14, <2>1 DEF Expire, answer, Latests
<1>15. CASE UNCHANGED vars
  BY <1>15 DEF vars, answer, histVars
<1> QED
  BY <1>1, <1>2, <1>3, <1>4, <1>5, <1>6, <1>7, <1>8, <1>9, <1>10, <1>11, <1>12, <1>13, <1>14, <1>15 DEF Next, RequestStep
-----------------------------------------------------------------------------
LEMMA LoadSess == ASSUME TypeOK, NEW r \in Reqs, LoadSession(r)
  PROVE  /\ asked[r] \in Ids /\ cache[asked[r]] # Absent /\ cache[asked[r]] \in Content
         /\ SameSess(r) /\ sess'[r].id = asked[r]
         /\ sess'[r].c = cache[asked[r]] /\ ~sess'[r].delete
BY DEF LoadSession, Known, TypeOK, SameSess

LEMMA NewSess == ASSUME TypeOK, NEW r \in Reqs, NewSession(r), sess[r] = Fresh
  PROVE  /\ asked[r] # NoId => cache[asked[r]] = Absent
         /\ SameSess(r) /\ sess'[r].id = r
         /\ sess'[r].c = Nothing /\ ~sess'[r].delete
BY Contents DEF NewSession, Known, TypeOK, SameSess, Sess

LEMMA ReturnSess == ASSUME TypeOK, NEW r \in Reqs, Return(r)
  PROVE  SameSess(r) /\ sess'[r] = Fresh
BY DEF Return, TypeOK, SameSess

LEMMA OwnedStep == ASSUME TypeOK, TypeOK', Owned, Steady, [Next]_vars PROVE Owned'
PROOF
<1> USE SessionAssumption DEF Owned, OfBrowser, SessionsPrivate
<1>1. ASSUME NEW r \in Reqs, Send(r) PROVE Owned'
  <2>1. UNCHANGED <<cache, cookie, sess, given>>
    BY <1>1 DEF Send, answer
  <2>2. /\ \A q \in Reqs \ {r} : asked'[q] = asked[q]
        /\ asked'[r] = NoId \/ Kept(BrowserOf[r], asked'[r])
    BY <1>1, SendAsks
  <2>3. OfBrowser(asked'[r], BrowserOf[r])
    BY <2>2 DEF Kept
  <2> QED
    BY <2>1, <2>2, <2>3
<1>2. ASSUME NEW r \in Reqs, Answered(r) PROVE Owned'
  <2>1. /\ UNCHANGED <<cache, sess>>
        /\ asked' = [asked EXCEPT ![r] = NoId] /\ given' = [given EXCEPT ![r] = NoId]
    BY <1>2 DEF Answered
  <2>2. \A b \in Browsers, d \in Dirs : OfBrowser(cookie'[b][d], b)
    BY <1>2, AnswerCookie
  <2> QED
    BY <2>1, <2>2 DEF TypeOK
<1>3. ASSUME NEW r \in Reqs, NewSession(r) PROVE Owned'
  BY <1>3, NewSess, Contents DEF NewSession, SameSess, answer, histVars
<1>4. ASSUME NEW r \in Reqs, LoadSession(r) PROVE Owned'
  <2>1. UNCHANGED <<cache, cookie, asked, given>>
    BY <1>4 DEF LoadSession, answer
  <2>2. \A x \in sess'[r].c.data \cup sess'[r].c.flash : BrowserOf[x] = BrowserOf[r]
    BY <1>4, LoadSess DEF Ids
  <2>3. OfBrowser(sess'[r].id, BrowserOf[r])
    BY <1>4, LoadSess
  <2> QED
    BY <1>4, LoadSess, <2>1, <2>2, <2>3 DEF SameSess
<1>5. ASSUME NEW r \in Reqs, Handle(r) PROVE Owned'
  <2>1. UNCHANGED <<cache, cookie, asked, given>>
    BY <1>5 DEF Handle, answer
  <2>2. \A x \in sess'[r].c.data \cup sess'[r].c.flash : BrowserOf[x] = BrowserOf[r]
    BY <1>5, HandleSess
  <2> QED
    BY <1>5, HandleSess, <2>1, <2>2 DEF SameParts, SameSess
<1>6. ASSUME NEW r \in Reqs, Render(r) PROVE Owned'
  BY <1>6, RenderSess DEF Render, SameParts, SameSess, answer
<1>7. ASSUME NEW r \in Reqs, Redirect(r) PROVE Owned'
  BY <1>7 DEF Redirect, answer
<1>8. ASSUME NEW r \in Reqs, WriteWithoutSaving(r) PROVE Owned'
  BY <1>8 DEF WriteWithoutSaving
<1>9. ASSUME NEW r \in Reqs, Return(r) PROVE Owned'
  BY <1>9, ReturnSess, Contents DEF Return, SameSess
<1>10. ASSUME NEW r \in Reqs, DeleteSession(r) PROVE Owned'
  BY <1>10 DEF DeleteSession, SetCookie, TypeOK
<1>11. ASSUME NEW r \in Reqs, SaveSession(r) PROVE Owned'
  <2>1. UNCHANGED <<cookie, asked>>
    BY <1>11 DEF SaveSession
  <2>2. \A x \in sess'[r].c.data \cup sess'[r].c.flash : BrowserOf[x] = BrowserOf[r]
    BY <1>11, SaveSess
  <2>3. \A q \in Reqs : OfBrowser(given'[q], BrowserOf[q])
    BY <1>11 DEF SaveSession, SetCookie, TypeOK
  <2>4. OfBrowser(sess'[r].id, BrowserOf[r])
    BY <1>11, SaveSess DEF SameParts
  <2>5. BrowserOf[sess[r].id] = BrowserOf[r]
    BY <1>11, SaveSess DEF Ids
  <2>6. \A i \in Ids : cache'[i] # Absent =>
          \A x \in cache'[i].data \cup cache'[i].flash : BrowserOf[x] = BrowserOf[i]
    BY <1>11, SaveSess, <2>2, <2>5
  <2> QED
    BY <1>11, SaveSess, <2>1, <2>2, <2>3, <2>4, <2>6 DEF SameParts, SameSess
<1>12. ASSUME NEW r \in Reqs, SkipSave(r) PROVE Owned'
  BY <1>12 DEF SkipSave
<1>13. ASSUME NEW b \in Browsers, NEW d \in Dirs, CookieExpires(b, d) PROVE Owned'
  BY <1>13, ExpireCookie DEF CookieExpires, answer
<1>14. ASSUME NEW i \in Ids, Expire(i) PROVE Owned'
  BY <1>14 DEF Expire, TypeOK, answer
<1>15. CASE UNCHANGED vars
  BY <1>15 DEF vars, answer
<1> QED
  BY <1>1, <1>2, <1>3, <1>4, <1>5, <1>6, <1>7, <1>8, <1>9, <1>10, <1>11, <1>12, <1>13, <1>14,
     <1>15 DEF Next, RequestStep

LEMMA SteadyStep == ASSUME TypeOK, Steady, [Next]_vars PROVE Steady'
PROOF
<1> USE SessionAssumption DEF Steady, Active, TypeOK, Ids
<1>1. ASSUME NEW r \in Reqs, Send(r) PROVE Steady'
  <2>1. /\ UNCHANGED <<sess, given>> /\ Goto(r, "idle", "before")
        /\ \A q \in Reqs \ {r} : asked'[q] = asked[q]
    BY <1>1, SendAsks DEF Send, answer
  <2> QED
    BY <2>1 DEF Goto
<1>2. ASSUME NEW r \in Reqs, Answered(r) PROVE Steady'
  BY <1>2 DEF Answered, Goto
<1>3. ASSUME NEW r \in Reqs, NewSession(r) PROVE Steady'
  BY <1>3, NewSess, Contents DEF NewSession, Goto, SameSess, answer, histVars
<1>4. ASSUME NEW r \in Reqs, LoadSession(r) PROVE Steady'
  BY <1>4, LoadSess DEF LoadSession, Goto, SameSess, answer, histVars
<1>5. ASSUME NEW r \in Reqs, Handle(r) PROVE Steady'
  <2>1. UNCHANGED <<asked, given>> /\ Goto(r, "run", "write")
    BY <1>5, HandleRest DEF answer
  <2>2. sess'[r].id = sess[r].id /\ \A q \in Reqs \ {r} : sess'[q] = sess[q]
    BY <1>5, HandleSess DEF SameParts, SameSess
  <2> QED
    BY <2>1, <2>2 DEF Goto
<1>6. ASSUME NEW r \in Reqs, Render(r) PROVE Steady'
  BY <1>6, RenderSess DEF Render, Goto, SameParts, SameSess, answer
<1>7. ASSUME NEW r \in Reqs, Redirect(r) PROVE Steady'
  BY <1>7 DEF Redirect, Goto, answer, histVars
<1>8. ASSUME NEW r \in Reqs, WriteWithoutSaving(r) PROVE Steady'
  BY <1>8 DEF WriteWithoutSaving, Goto, histVars
<1>9. ASSUME NEW r \in Reqs, Return(r) PROVE Steady'
  BY <1>9, ReturnSess, Contents DEF Return, Goto, SameSess, histVars
<1>10. ASSUME NEW r \in Reqs, DeleteSession(r) PROVE Steady'
  BY <1>10 DEF DeleteSession, Goto, SetCookie
<1>11. ASSUME NEW r \in Reqs, SaveSession(r) PROVE Steady'
  BY <1>11, SaveSess DEF SaveSession, Goto, SetCookie, SameParts, SameSess
<1>12. ASSUME NEW r \in Reqs, SkipSave(r) PROVE Steady'
  BY <1>12 DEF SkipSave, Goto
<1>13. ASSUME NEW b \in Browsers, NEW d \in Dirs, CookieExpires(b, d) PROVE Steady'
  BY <1>13 DEF CookieExpires, answer
<1>14. ASSUME NEW i \in Ids, Expire(i) PROVE Steady'
  BY <1>14 DEF Expire, answer
<1>15. CASE UNCHANGED vars
  BY <1>15 DEF vars, answer, histVars
<1> QED
  BY <1>1, <1>2, <1>3, <1>4, <1>5, <1>6, <1>7, <1>8, <1>9, <1>10, <1>11, <1>12, <1>13, <1>14,
     <1>15 DEF Next, RequestStep

LEMMA NamedStep == ASSUME TypeOK, Steady, Named, [Next]_vars PROVE Named'
PROOF
<1> USE SessionAssumption DEF Named, Fledged, TypeOK, Ids
<1>1. ASSUME NEW r \in Reqs, Send(r) PROVE Named'
  <2>1. UNCHANGED <<cache, cookie, sess, given>> /\ Goto(r, "idle", "before")
    BY <1>1 DEF Send, answer
  <2>2. /\ \A q \in Reqs \ {r} : asked'[q] = asked[q]
        /\ asked'[r] = NoId \/ Kept(BrowserOf[r], asked'[r])
    BY <1>1, SendAsks
  <2>3. ASSUME NEW q \in Reqs, asked'[q] # NoId PROVE asked'[q] \in Ids /\ pc[asked'[q]] = "done"
    <3>1. CASE q # r
      BY <2>2, <2>3, <3>1
    <3>2. CASE q = r
      <4>1. PICK d \in Dirs : cookie[BrowserOf[r]][d] = asked'[r]
        BY <2>2, <2>3, <3>2 DEF Kept
      <4> QED
        BY <2>3, <3>2, <4>1
    <3> QED
      BY <3>1, <3>2
  <2>4. \A i \in Ids : /\ pc[i] = "done" => pc'[i] = "done"
                       /\ pc[i] \in {"write", "save", "reply", "done"} => pc'[i] = pc[i]
    BY <2>1 DEF Goto
  <2>5. \A q \in Reqs : sess[q].id \in Ids \cup {NoId}
    BY DEF Sess
  <2>6. \A b \in Browsers, d \in Dirs : Fledged(cookie[b][d])'
    BY <2>1, <2>4
  <2>7. \A q \in Reqs : Fledged(asked[q])'
    BY <2>3, <2>4
  <2>8. \A q \in Reqs : (given[q] # q => Fledged(given[q]))'
    BY <2>1, <2>4
  <2>9. \A q \in Reqs : (sess[q].id # q => Fledged(sess[q].id))'
    BY <2>1, <2>4, <2>5
  <2>10. \A i \in Ids : cache'[i] # Absent => pc'[i] \in {"write", "save", "reply", "done"}
    BY <2>1, <2>4
  <2> QED
    BY <2>6, <2>7, <2>8, <2>9, <2>10
<1>2. ASSUME NEW r \in Reqs, Answered(r) PROVE Named'
  <2>1. /\ UNCHANGED <<cache, sess>> /\ Goto(r, "reply", "done")
        /\ asked' = [asked EXCEPT ![r] = NoId] /\ given' = [given EXCEPT ![r] = NoId]
    BY <1>2 DEF Answered
  <2>2. \A i \in Ids : /\ pc[i] = "done" => pc'[i] = "done"
                       /\ pc[i] \in {"write", "save", "reply", "done"} =>
                            pc'[i] \in {"write", "save", "reply", "done"}
                       /\ i = r => pc'[i] = "done"
    BY <2>1 DEF Goto
  <2>3. ASSUME NEW b \in Browsers, NEW d \in Dirs PROVE Fledged(cookie[b][d])'
    <3>1. given[r] \in Ids \cup {NoId} /\ cookie[b][d] \in Ids \cup {NoId}
      OBVIOUS
    <3>2. cookie'[b][d] = given[r] \/ cookie'[b][d] = cookie[b][d]
      BY <1>2, AnswerCookie
    <3>3. given[r] # NoId => pc'[given[r]] = "done"
      BY <2>2, <3>1
    <3> QED
      BY <2>2, <3>1, <3>2, <3>3
  <2>4. \A q \in Reqs : sess[q].id \in Ids \cup {NoId}
    BY DEF Sess
  <2>5. \A q \in Reqs : Fledged(asked[q])' /\ (given[q] # q => Fledged(given[q]))'
    BY <2>1, <2>2
  <2>6. \A q \in Reqs : (sess[q].id # q => Fledged(sess[q].id))'
    BY <2>1, <2>2, <2>4
  <2>7. \A i \in Ids : cache'[i] # Absent => pc'[i] \in {"write", "save", "reply", "done"}
    BY <2>1, <2>2
  <2> QED
    BY <2>3, <2>5, <2>6, <2>7
<1>3. ASSUME NEW r \in Reqs, NewSession(r) PROVE Named'
  BY <1>3, NewSess, Contents DEF NewSession, Goto, SameSess, answer, histVars
<1>4. ASSUME NEW r \in Reqs, LoadSession(r) PROVE Named'
  BY <1>4, LoadSess DEF LoadSession, Goto, SameSess, answer, histVars
<1>5. ASSUME NEW r \in Reqs, Handle(r) PROVE Named'
  <2>1. UNCHANGED <<cache, cookie, asked, given>> /\ Goto(r, "run", "write")
    BY <1>5, HandleRest DEF answer
  <2>2. \A q \in Reqs : sess'[q].id = sess[q].id
    BY <1>5, HandleSess DEF SameParts, SameSess
  <2>3. \A i \in Ids : /\ pc[i] = "done" => pc'[i] = "done"
                       /\ pc[i] \in {"write", "save", "reply", "done"} => pc'[i] = pc[i]
    BY <2>1 DEF Goto
  <2>4. \A q \in Reqs : sess[q].id \in Ids \cup {NoId}
    BY DEF Sess
  <2>5. \A b \in Browsers, d \in Dirs : Fledged(cookie[b][d])'
    BY <2>1, <2>3
  <2>6. \A q \in Reqs : Fledged(asked[q])' /\ (given[q] # q => Fledged(given[q]))'
    BY <2>1, <2>3
  <2>7. \A q \in Reqs : (sess[q].id # q => Fledged(sess[q].id))'
    BY <2>2, <2>3, <2>4
  <2>8. \A i \in Ids : cache'[i] # Absent => pc'[i] \in {"write", "save", "reply", "done"}
    BY <2>1, <2>3
  <2> QED
    BY <2>5, <2>6, <2>7, <2>8
<1>6. ASSUME NEW r \in Reqs, Render(r) PROVE Named'
  BY <1>6, RenderSess DEF Render, Goto, SameParts, SameSess, answer
<1>7. ASSUME NEW r \in Reqs, Redirect(r) PROVE Named'
  BY <1>7 DEF Redirect, Goto, answer, histVars
<1>8. ASSUME NEW r \in Reqs, WriteWithoutSaving(r) PROVE Named'
  BY <1>8 DEF WriteWithoutSaving, Goto, histVars
<1>9. ASSUME NEW r \in Reqs, Return(r) PROVE Named'
  BY <1>9, ReturnSess, Contents DEF Return, Goto, SameSess, histVars
<1>10. ASSUME NEW r \in Reqs, DeleteSession(r) PROVE Named'
  BY <1>10 DEF DeleteSession, Goto, SetCookie
<1>11. ASSUME NEW r \in Reqs, SaveSession(r) PROVE Named'
  BY <1>11, SaveSess DEF SaveSession, Goto, SetCookie, SameParts, SameSess
<1>12. ASSUME NEW r \in Reqs, SkipSave(r) PROVE Named'
  BY <1>12 DEF SkipSave, Goto
<1>13. ASSUME NEW b \in Browsers, NEW d \in Dirs, CookieExpires(b, d) PROVE Named'
  BY <1>13, ExpireCookie DEF CookieExpires, answer
<1>14. ASSUME NEW i \in Ids, Expire(i) PROVE Named'
  BY <1>14 DEF Expire, answer
<1>15. CASE UNCHANGED vars
  BY <1>15 DEF vars, answer, histVars
<1> QED
  BY <1>1, <1>2, <1>3, <1>4, <1>5, <1>6, <1>7, <1>8, <1>9, <1>10, <1>11, <1>12, <1>13, <1>14,
     <1>15 DEF Next, RequestStep

LEMMA FlaggedStep == ASSUME TypeOK, Steady, Named, Flagged, [Next]_vars PROVE Flagged'
PROOF
<1> USE SessionAssumption DEF Flagged, Active, TypeOK, Ids
<1>1. ASSUME NEW r \in Reqs, Send(r) PROVE Flagged'
  BY <1>1 DEF Send, Goto, answer
<1>2. ASSUME NEW r \in Reqs, Answered(r) PROVE Flagged'
  BY <1>2 DEF Answered, Goto
<1>3. ASSUME NEW r \in Reqs, NewSession(r) PROVE Flagged'
  <2>1. sess[r] = Fresh /\ given[r] = NoId /\ cache[r] = Absent
    BY <1>3 DEF NewSession, Goto, Steady, Named
  <2>2. UNCHANGED <<cache, given>> /\ Goto(r, "before", "run")
    BY <1>3 DEF NewSession, answer
  <2> QED
    BY <1>3, NewSess, <2>1, <2>2 DEF Goto, SameSess
<1>4. ASSUME NEW r \in Reqs, LoadSession(r) PROVE Flagged'
  <2>1. UNCHANGED <<cache, given>> /\ Goto(r, "before", "run")
    BY <1>4 DEF LoadSession, answer
  <2>2. sess'[r].c.persisted
    BY <1>4, LoadSess
  <2> QED
    BY <1>4, LoadSess, <2>1, <2>2 DEF Goto, SameSess
<1>5. ASSUME NEW r \in Reqs, Handle(r) PROVE Flagged'
  <2>1. UNCHANGED <<cache, given>> /\ Goto(r, "run", "write")
    BY <1>5, HandleRest DEF answer
  <2> QED
    BY <1>5, HandleSess, <2>1 DEF Goto, SameParts, SameSess
<1>6. ASSUME NEW r \in Reqs, Render(r) PROVE Flagged'
  BY <1>6, RenderSess DEF Render, Goto, SameParts, SameSess, answer
<1>7. ASSUME NEW r \in Reqs, Redirect(r) PROVE Flagged'
  BY <1>7 DEF Redirect, Goto, answer, histVars
<1>8. ASSUME NEW r \in Reqs, WriteWithoutSaving(r) PROVE Flagged'
  BY <1>8 DEF WriteWithoutSaving, Goto, histVars
<1>9. ASSUME NEW r \in Reqs, Return(r) PROVE Flagged'
  BY <1>9, ReturnSess, Contents DEF Return, Goto, SameSess, histVars
<1>10. ASSUME NEW r \in Reqs, DeleteSession(r) PROVE Flagged'
  BY <1>10 DEF DeleteSession, Goto, SetCookie
<1>11. ASSUME NEW r \in Reqs, SaveSession(r) PROVE Flagged'
  <2>1. Goto(r, "save", "write") /\ \A q \in Reqs \ {r} : given'[q] = given[q]
    BY <1>11 DEF SaveSession, SetCookie
  <2>2. \A q \in Reqs \ {r} : Active(q) => sess[r].id # q
    <3>1. sess[r].id # NoId
      BY <1>11, <2>1 DEF Goto, TypeOK
    <3>2. sess[r].id # r => pc[sess[r].id] = "done"
      BY <3>1 DEF Named, Fledged
    <3> QED
      BY <3>2 DEF Active
  <2>3. ASSUME NEW i \in Ids, cache'[i] # Absent PROVE cache'[i].persisted
    BY <1>11, SaveSess, <2>3
  <2>4. ASSUME NEW q \in Reqs, pc'[q] \in {"run", "write", "save"}, ~sess'[q].c.persisted
        PROVE  /\ sess'[q].id = q /\ cache'[q] = Absent
               /\ ~sess'[q].delete => given'[q] = NoId
    <3>1. q # r /\ pc'[q] = pc[q] /\ sess'[q] = sess[q]
      BY <1>11, SaveSess, <2>1, <2>4 DEF Goto, SameParts, SameSess
    <3>2. sess[q].id = q /\ cache[q] = Absent /\ (~sess[q].delete => given[q] = NoId)
      BY <2>4, <3>1
    <3>3. sess[r].id # q
      BY <2>2, <2>4, <3>1
    <3>4. cache'[q] = cache[q]
      BY <1>11, SaveSess, <3>3
    <3> QED
      BY <2>1, <3>1, <3>2, <3>4
  <2> QED
    BY <2>3, <2>4
<1>12. ASSUME NEW r \in Reqs, SkipSave(r) PROVE Flagged'
  BY <1>12 DEF SkipSave, Goto
<1>13. ASSUME NEW b \in Browsers, NEW d \in Dirs, CookieExpires(b, d) PROVE Flagged'
  BY <1>13 DEF CookieExpires, answer
<1>14. ASSUME NEW i \in Ids, Expire(i) PROVE Flagged'
  BY <1>14 DEF Expire, answer
<1>15. CASE UNCHANGED vars
  BY <1>15 DEF vars, answer, histVars
<1> QED
  BY <1>1, <1>2, <1>3, <1>4, <1>5, <1>6, <1>7, <1>8, <1>9, <1>10, <1>11, <1>12, <1>13, <1>14,
     <1>15 DEF Next, RequestStep

LEMMA AloneSame ==
  ASSUME TypeOK, Alone, UNCHANGED <<asked, overlapped>>,
         \A q \in Reqs : UnderWay(q)' = UnderWay(q),
         \A q \in Reqs, i \in Ids :
           UnderWay(q) /\ Single(BrowserOf[q]) /\ Ends(q, i)' /\ asked[q] \notin {NoId, i} =>
             cache'[asked[q]] = Absent
  PROVE  Alone'
BY DEF Alone, Single

(* Most steps neither start a request nor give it another session.         *)
LEMMA AloneQuiet ==
  ASSUME TypeOK, Alone, UNCHANGED <<asked, overlapped>>,
         \A q \in Reqs : UnderWay(q)' => UnderWay(q),
         \A q \in Reqs, i \in Ids : Ends(q, i)' => Ends(q, i),
         \A i \in Ids : cache[i] = Absent => cache'[i] = Absent
  PROVE  Alone'
BY SessionAssumption DEF Alone, Single, TypeOK, Ids

LEMMA AloneStep ==
  ASSUME TypeOK, TypeOK', Owned, Steady, Steady', Named, Flagged, Alone, [Next]_vars
  PROVE  Alone'
PROOF
<1> USE SessionAssumption DEF Alone, Single, UnderWay, Ends, Active, TypeOK, Ids
<1>1. ASSUME NEW r \in Reqs, Send(r) PROVE Alone'
  <2>1. SUFFICES ASSUME NEW q \in Reqs, (Single(BrowserOf[q]) /\ UnderWay(q))'
        PROVE  /\ \A s \in Reqs : BrowserOf[s] = BrowserOf[q] /\ UnderWay(s)' => s = q
               /\ \A i \in Ids : Ends(q, i)' /\ asked'[q] \notin {NoId, i} =>
                    cache'[asked'[q]] = Absent
    OBVIOUS
  <2>2. CASE BrowserOf[q] = BrowserOf[r]
    <3>1. ~Busy(BrowserOf[r])
      BY <1>1, <2>1, <2>2 DEF Send
    <3>2. \A s \in Reqs : BrowserOf[s] = BrowserOf[r] /\ UnderWay(s)' => s = r
      BY <1>1, <3>1 DEF Send, Goto, Busy
    <3>3. q = r /\ pc'[r] = "before"
      BY <1>1, <2>1, <2>2, <3>2 DEF Send, Goto
    <3> QED
      BY <2>2, <3>2, <3>3
  <2>3. CASE BrowserOf[q] # BrowserOf[r]
    <3>1. Single(BrowserOf[q]) /\ UnderWay(q)
      BY <1>1, <2>1, <2>3 DEF Send, Goto
    <3>2. /\ asked'[q] = asked[q] /\ UNCHANGED <<cache, sess, given>>
          /\ \A s \in Reqs \ {r} : pc'[s] = pc[s]
      BY <1>1, <2>3, SendAsks DEF Send, Goto, answer
    <3> QED
      BY <2>3, <3>1, <3>2
  <2> QED
    BY <2>2, <2>3
<1>2. ASSUME NEW r \in Reqs, Answered(r) PROVE Alone'
  BY SMTT(30), <1>2 DEF Answered, Goto
<1>3. ASSUME NEW r \in Reqs, NewSession(r) PROVE Alone'
  <2>1. UNCHANGED <<asked, overlapped, cache, given>> /\ Goto(r, "before", "run")
    BY <1>3 DEF NewSession, answer, histVars
  <2>2. \A q \in Reqs : UnderWay(q)' = UnderWay(q)
    BY <2>1 DEF Goto
  <2>3. sess[r] = Fresh
    BY <2>1 DEF Goto, Steady
  <2>4. \A q \in Reqs \ {r}, i \in Ids : Ends(q, i)' = Ends(q, i)
    BY <1>3, <2>1, <2>3, NewSess DEF Goto, SameSess
  <2>5. asked[r] # NoId => cache[asked[r]] = Absent
    BY <1>3, <2>3, NewSess
  <2>6. \A q \in Reqs, i \in Ids :
          UnderWay(q) /\ Single(BrowserOf[q]) /\ Ends(q, i)' /\ asked[q] \notin {NoId, i} =>
            cache[asked[q]] = Absent
    <3>1. SUFFICES ASSUME NEW q \in Reqs, NEW i \in Ids, UnderWay(q), Single(BrowserOf[q]),
                          Ends(q, i)', asked[q] \notin {NoId, i}
          PROVE  cache[asked[q]] = Absent
      OBVIOUS
    <3>2. CASE q = r
      BY <2>5, <3>1, <3>2
    <3>3. CASE q # r
      BY <2>4, <3>1, <3>3
    <3> QED
      BY <3>2, <3>3
  <2> QED
    BY <2>1, <2>2, <2>6, AloneSame
<1>4. ASSUME NEW r \in Reqs, LoadSession(r) PROVE Alone'
  BY <1>4, LoadSess DEF LoadSession, Goto, SameSess, answer, histVars
<1>5. ASSUME NEW r \in Reqs, Handle(r) PROVE Alone'
  <2>1. UNCHANGED <<asked, overlapped>>
    BY <1>5, HandleRest DEF histVars
  <2>2. \A q \in Reqs : UnderWay(q)' => UnderWay(q)
    BY <1>5, HandleRest DEF Goto
  <2>3. \A q \in Reqs, i \in Ids : Ends(q, i)' => Ends(q, i)
    BY <1>5, HandleSess, HandleRest DEF Goto, SameParts, SameSess, answer
  <2>4. \A i \in Ids : cache[i] = Absent => cache'[i] = Absent
    BY <1>5, HandleRest DEF answer
  <2> QED
    BY <2>1, <2>2, <2>3, <2>4, AloneQuiet
<1>6. ASSUME NEW r \in Reqs, Render(r) PROVE Alone'
  BY <1>6, RenderSess DEF Render, Goto, SameParts, SameSess, answer
<1>7. ASSUME NEW r \in Reqs, Redirect(r) PROVE Alone'
  BY <1>7 DEF Redirect, Goto, answer, histVars
<1>8. ASSUME NEW r \in Reqs, WriteWithoutSaving(r) PROVE Alone'
  BY <1>8 DEF WriteWithoutSaving, Goto, histVars
<1>9. ASSUME NEW r \in Reqs, Return(r) PROVE Alone'
  <2>1. UNCHANGED <<asked, overlapped>>
    BY <1>9 DEF Return, answer, histVars
  <2>2. \A q \in Reqs : UnderWay(q)' => UnderWay(q)
    BY <1>9 DEF Return, Goto
  <2>3. \A q \in Reqs, i \in Ids : Ends(q, i)' => Ends(q, i)
    BY <1>9, ReturnSess DEF Return, Goto, SameSess, Steady, answer
  <2>4. \A i \in Ids : cache[i] = Absent => cache'[i] = Absent
    BY <1>9 DEF Return, answer
  <2> QED
    BY <2>1, <2>2, <2>3, <2>4, AloneQuiet
<1>10. ASSUME NEW r \in Reqs, DeleteSession(r) PROVE Alone'
  BY <1>10 DEF DeleteSession, Goto, SetCookie
<1>11. ASSUME NEW r \in Reqs, SaveSession(r) PROVE Alone'
  <2>1. UNCHANGED <<asked, overlapped>> /\ Goto(r, "save", "write")
    BY <1>11 DEF SaveSession
  <2>2. \A q \in Reqs : UnderWay(q)' = UnderWay(q)
    BY <2>1 DEF Goto
  <2>3. \A q \in Reqs, i \in Ids : Ends(q, i)' = Ends(q, i)
    BY <1>11, <2>1, SaveSess DEF Goto, SameParts, SameSess, SaveSession, SetCookie
  <2>4. ASSUME NEW q \in Reqs, NEW i \in Ids, Single(BrowserOf[q]), UnderWay(q),
               Ends(q, i), asked[q] \notin {NoId, i}
        PROVE  cache'[asked[q]] = Absent
    <3>1. asked[q] \in Ids /\ cache[asked[q]] = Absent
      BY <2>4
    <3>2. asked[q] # sess[r].id
      <4>1. SUFFICES ASSUME asked[q] = sess[r].id PROVE FALSE
        OBVIOUS
      <4>2. BrowserOf[q] = BrowserOf[r]
        BY <2>4, <3>1, <4>1 DEF Owned, OfBrowser
      <4>3. q = r
        BY <2>1, <2>4, <4>2 DEF Goto
      <4> QED
        BY <2>1, <2>4, <4>1, <4>3 DEF Goto
    <3> QED
      BY <1>11, <3>1, <3>2, SaveSess
  <2>5. \A q \in Reqs, i \in Ids :
          UnderWay(q) /\ Single(BrowserOf[q]) /\ Ends(q, i)' /\ asked[q] \notin {NoId, i} =>
            cache'[asked[q]] = Absent
    BY <2>3, <2>4
  <2> QED
    BY <2>1, <2>2, <2>5, AloneSame
<1>12. ASSUME NEW r \in Reqs, SkipSave(r) PROVE Alone'
  BY <1>12 DEF SkipSave, Goto
<1>13. ASSUME NEW b \in Browsers, NEW d \in Dirs, CookieExpires(b, d) PROVE Alone'
  BY <1>13 DEF CookieExpires, answer
<1>14. ASSUME NEW i \in Ids, Expire(i) PROVE Alone'
  BY <1>14 DEF Expire, answer
<1>15. CASE UNCHANGED vars
  BY <1>15 DEF vars, answer, histVars
<1> QED
  BY <1>1, <1>2, <1>3, <1>4, <1>5, <1>6, <1>7, <1>8, <1>9, <1>10, <1>11, <1>12, <1>13, <1>14,
     <1>15 DEF Next, RequestStep

-----------------------------------------------------------------------------
(* Most steps show nothing and put nothing.                                *)
LEMMA FlashQuiet ==
  ASSUME TypeOK, FlashInv, shown' = shown, overlapped \subseteq overlapped',
         \A x \in Reqs : Early(x)' => Early(x),
         \A x \in Reqs, i \in Ids : Within(x, i)' => Within(x, i),
         \A x \in Reqs, q \in Reqs : Has(q, x)' => Has(q, x) /\ sess'[q].id = sess[q].id,
         \A q \in Reqs : pc[q] = "save" => pc'[q] = "save" /\ sess'[q].id = sess[q].id
  PROVE  FlashInv'
PROOF
<1>1. SUFFICES ASSUME NEW x \in Reqs
      PROVE  /\ Early(x)' => Unborn(x)'
             /\ Single(BrowserOf[x])' => AtMostOnce(x)'
  BY DEF FlashInv
<1>2. Early(x)' => Unborn(x)'
  BY DEF FlashInv, Unborn
<1>3. Single(BrowserOf[x])' => AtMostOnce(x)
  BY DEF Single, FlashInv
<1>4. AtMostOnce(x) => AtMostOnce(x)'
  BY DEF AtMostOnce
<1> QED
  BY <1>2, <1>3, <1>4

(* A request ends its save, and its session is not in the cache with the   *)
(* messages it has shown.                                                  *)
LEMMA FlashGone ==
  ASSUME TypeOK, FlashInv, UNCHANGED <<shown, overlapped, sess>>, NEW r \in Reqs,
         \A q \in Reqs : pc'[q] = IF q = r THEN "write" ELSE pc[q],
         \A x \in Reqs, i \in Ids : Within(x, i)' => Within(x, i) /\ i # sess[r].id
  PROVE  FlashInv'
PROOF
<1>1. SUFFICES ASSUME NEW x \in Reqs
      PROVE  /\ Early(x)' => Unborn(x)'
             /\ Single(BrowserOf[x])' => AtMostOnce(x)'
  BY DEF FlashInv
<1>2. \A q \in Reqs : Has(q, x)' = Has(q, x)
  BY DEF Has
<1>3. Early(x)' => Unborn(x)'
  BY <1>2 DEF FlashInv, Unborn, Early
<1>4. Single(BrowserOf[x])' => AtMostOnce(x)
  BY DEF Single, FlashInv
<1>5. AtMostOnce(x) => AtMostOnce(x)'
  BY <1>2 DEF AtMostOnce
<1> QED
  BY <1>3, <1>4, <1>5

(* Only the request that is under way has a session with a message of a    *)
(* browser that sends one at a time.                                       *)
LEMMA OneHas ==
  ASSUME TypeOK, Owned, Steady, Alone, NEW x \in Reqs, NEW q \in Reqs, NEW r \in Reqs,
         Single(BrowserOf[x]), Has(q, x), BrowserOf[r] = BrowserOf[x], UnderWay(r)
  PROVE  q = r
PROOF
<1>1. BrowserOf[q] = BrowserOf[x]
  BY DEF Owned, SessionsPrivate, Has
<1>2. UnderWay(q)
  BY Contents DEF Steady, Has, Active, UnderWay
<1> QED
  BY <1>1, <1>2 DEF Alone

LEMMA FlashStep ==
  ASSUME TypeOK, TypeOK', Owned, Steady, Named, Flagged, Alone, FlashInv, [Next]_vars
  PROVE  FlashInv'
PROOF
<1>1. ASSUME NEW r \in Reqs, Send(r) PROVE FlashInv'
  <2>1. shown' = shown /\ overlapped \subseteq overlapped' /\ UNCHANGED <<cache, sess>>
    BY <1>1 DEF Send, answer
  <2>2. pc[r] = "idle" /\ \A q \in Reqs : pc'[q] = IF q = r THEN "before" ELSE pc[q]
    BY <1>1 DEF Send, Goto, TypeOK
  <2> QED
    BY <2>1, <2>2, FlashQuiet DEF Within, Has, Early
<1>2. ASSUME NEW r \in Reqs, Answered(r) PROVE FlashInv'
  <2>1. UNCHANGED <<shown, overlapped, cache, sess>>
    BY <1>2 DEF Answered
  <2>2. pc[r] = "reply" /\ \A q \in Reqs : pc'[q] = IF q = r THEN "done" ELSE pc[q]
    BY <1>2 DEF Answered, Goto, TypeOK
  <2> QED
    BY <2>1, <2>2, FlashQuiet DEF Within, Has, Early
<1>3. ASSUME NEW r \in Reqs, NewSession(r) PROVE FlashInv'
  <2>1. UNCHANGED <<shown, overlapped, cache>>
    BY <1>3 DEF NewSession, histVars
  <2>2. pc[r] = "before" /\ \A q \in Reqs : pc'[q] = IF q = r THEN "run" ELSE pc[q]
    BY <1>3 DEF NewSession, Goto, TypeOK
  <2>3. sess[r] = Fresh
    BY <2>2 DEF Steady, Active
  <2>4. \A x \in Reqs : ~Has(r, x)'
    BY <1>3, <2>3, NewSess, Contents DEF Has
  <2>5. SameSess(r)
    BY <1>3, <2>3, NewSess
  <2>6. \A x \in Reqs, q \in Reqs : Has(q, x)' => Has(q, x) /\ sess'[q].id = sess[q].id
    BY <2>4, <2>5 DEF SameSess, Has
  <2> QED
    BY <2>1, <2>2, <2>5, <2>6, FlashQuiet DEF Within, SameSess, Early
<1>4. ASSUME NEW r \in Reqs, LoadSession(r) PROVE FlashInv'
  <2>1. UNCHANGED <<shown, overlapped, cache>>
    BY <1>4 DEF LoadSession, histVars
  <2>2. pc[r] = "before" /\ \A q \in Reqs : pc'[q] = IF q = r THEN "run" ELSE pc[q]
    BY <1>4 DEF LoadSession, Goto, TypeOK
  <2>3. asked[r] \in Ids /\ SameSess(r) /\ sess'[r].id = asked[r]
    BY <1>4, LoadSess
  <2>4. \A x \in Reqs : Has(r, x)' => Within(x, asked[r])
    BY <1>4, LoadSess DEF Has, Within
  <2>5. BrowserOf[asked[r]] = BrowserOf[r]
    BY <2>3, SessionAssumption DEF Owned, OfBrowser, Ids
  <2>6. SUFFICES ASSUME NEW x \in Reqs
        PROVE  /\ Early(x)' => Unborn(x)'
               /\ Single(BrowserOf[x])' => AtMostOnce(x)'
    BY DEF FlashInv
  <2>7. \A q \in Reqs \ {r} : Has(q, x)' = Has(q, x) /\ sess'[q].id = sess[q].id
    BY <2>3 DEF Has, SameSess
  <2>8. \A i \in Ids : Within(x, i)' = Within(x, i)
    BY <2>1 DEF Within
  <2>9. Early(x)' => Unborn(x)'
    <3>1. Early(x)' => Unborn(x)
      BY <2>2 DEF Early, FlashInv
    <3> QED
      BY <2>1, <2>3, <2>4, <2>7, <2>8, <3>1 DEF Unborn
  <2>10. ASSUME Single(BrowserOf[x])' PROVE AtMostOnce(x)'
    <3>1. Single(BrowserOf[x]) /\ AtMostOnce(x)
      BY <2>1, <2>10 DEF Single, FlashInv
    <3>2. Has(r, x)' => shown[x] = 0
      <4>1. SUFFICES ASSUME Has(r, x)', shown[x] # 0 PROVE FALSE
        OBVIOUS
      <4>2. shown[x] = 1
        <5>1. shown[x] \in Nat
          BY DEF TypeOK
        <5>2. shown[x] <= 1 /\ shown[x] # 0
          BY <2>1, <3>1, <4>1 DEF AtMostOnce
        <5> QED
          BY <5>1, <5>2
      <4>3. PICK q \in Reqs : BrowserOf[q] = BrowserOf[x] /\ pc[q] = "save"
        BY <2>3, <2>4, <3>1, <4>1, <4>2 DEF AtMostOnce
      <4>4. BrowserOf[x] = BrowserOf[r]
        BY <2>3, <2>4, <2>5, <4>1 DEF Owned, Within
      <4> QED
        BY <2>2, <3>1, <4>3, <4>4 DEF Alone, UnderWay
    <3>3. ASSUME NEW q \in Reqs, Has(q, x)'
          PROVE  shown[x] = 0 /\ \A i \in Ids : Within(x, i) => sess'[q].id = i
      <4>1. CASE q = r
        BY <2>3, <2>4, <3>1, <3>2, <3>3, <4>1 DEF AtMostOnce
      <4>2. CASE q # r
        BY <2>7, <3>1, <3>3, <4>2 DEF AtMostOnce
      <4> QED
        BY <4>1, <4>2
    <3>4. ASSUME NEW i \in Ids, Within(x, i), shown[x] = 1
          PROVE  \E q \in Reqs : BrowserOf[q] = BrowserOf[x] /\ pc'[q] = "save"
                                 /\ sess'[q].id = i
      <4>1. PICK q \in Reqs : BrowserOf[q] = BrowserOf[x] /\ pc[q] = "save" /\ sess[q].id = i
        BY <3>1, <3>4 DEF AtMostOnce
      <4> QED
        BY <2>2, <2>7, <4>1
    <3> QED
      BY <2>1, <2>8, <3>1, <3>3, <3>4 DEF AtMostOnce
  <2> QED
    BY <2>9, <2>10
<1>5. ASSUME NEW r \in Reqs, Handle(r) PROVE FlashInv'
  <2>1. UNCHANGED <<shown, overlapped, cache>>
    BY <1>5, HandleRest DEF histVars
  <2>2. pc[r] = "run" /\ \A q \in Reqs : pc'[q] = IF q = r THEN "write" ELSE pc[q]
    BY <1>5, HandleRest DEF Goto, TypeOK
  <2>3. \A q \in Reqs : sess'[q].id = sess[q].id
    BY <1>5, HandleSess DEF SameParts, SameSess
  <2>4. \A q \in Reqs, x \in Reqs : Has(q, x)' => Has(q, x) \/ (q = r /\ x = r)
    BY <1>5, HandleSess DEF SameParts, SameSess, Has
  <2>5. SUFFICES ASSUME NEW x \in Reqs
        PROVE  /\ Early(x)' => Unborn(x)'
               /\ Single(BrowserOf[x])' => AtMostOnce(x)'
    BY DEF FlashInv
  <2>6. \A i \in Ids : Within(x, i)' = Within(x, i)
    BY <2>1 DEF Within
  <2>7. Early(x)' => Unborn(x)'
    BY <2>1, <2>2, <2>4, <2>6 DEF Early, FlashInv, Unborn
  <2>8. x = r => Unborn(x)
    BY <2>2 DEF Early, FlashInv
  <2>9. Single(BrowserOf[x])' => AtMostOnce(x)
    BY <2>1 DEF Single, FlashInv
  <2>10. AtMostOnce(x) => AtMostOnce(x)'
    <3>1. CASE x = r
      BY <2>1, <2>6, <2>8, <3>1 DEF AtMostOnce, Unborn
    <3>2. CASE x # r
      BY <2>1, <2>2, <2>3, <2>4, <2>6, <3>2 DEF AtMostOnce
    <3> QED
      BY <3>1, <3>2
  <2> QED
    BY <2>7, <2>9, <2>10
<1>6. ASSUME NEW r \in Reqs, Render(r) PROVE FlashInv'
  <2>1. UNCHANGED <<overlapped, cache>>
    BY <1>6 DEF Render
  <2>2. pc[r] = "write" /\ \A q \in Reqs : pc'[q] = IF q = r THEN "save" ELSE pc[q]
    BY <1>6 DEF Render, Goto, TypeOK
  <2>3. \A q \in Reqs : sess'[q].id = sess[q].id
    BY <1>6, RenderSess DEF SameParts, SameSess
  <2>4. \A q \in Reqs, x \in Reqs : Has(q, x)' => Has(q, x) /\ q # r
    BY <1>6, RenderSess DEF SameParts, SameSess, Has
  <2>5. SUFFICES ASSUME NEW x \in Reqs
        PROVE  /\ Early(x)' => Unborn(x)'
               /\ Single(BrowserOf[x])' => AtMostOnce(x)'
    BY DEF FlashInv
  <2>6. shown'[x] = IF Has(r, x) THEN shown[x] + 1 ELSE shown[x]
    BY <1>6 DEF Render, Has
  <2>7. \A i \in Ids : Within(x, i)' = Within(x, i)
    BY <2>1 DEF Within
  <2>8. Early(x)' => Unborn(x)'
    BY <2>2, <2>4, <2>6, <2>7 DEF Early, FlashInv, Unborn
  <2>9. ASSUME Single(BrowserOf[x])' PROVE AtMostOnce(x)'
    <3>1. Single(BrowserOf[x]) /\ AtMostOnce(x)
      BY <2>1, <2>9 DEF Single, FlashInv
    <3>2. CASE Has(r, x)
      <4>1. shown[x] = 0 /\ shown'[x] = 1 /\ \A i \in Ids : Within(x, i) => sess[r].id = i
        BY <2>6, <3>1, <3>2 DEF AtMostOnce
      <4>2. BrowserOf[r] = BrowserOf[x]
        BY <3>2 DEF Owned, SessionsPrivate, Has
      <4>3. \A q \in Reqs : ~Has(q, x)'
        BY <2>2, <2>4, <3>1, <4>2, OneHas DEF UnderWay
      <4> QED
        BY <2>2, <2>3, <2>7, <3>1, <4>1, <4>2, <4>3 DEF AtMostOnce
    <3>3. CASE ~Has(r, x)
      BY <2>2, <2>3, <2>4, <2>6, <2>7, <3>1, <3>3 DEF AtMostOnce
    <3> QED
      BY <3>2, <3>3
  <2> QED
    BY <2>8, <2>9
<1>7. ASSUME NEW r \in Reqs, Redirect(r) PROVE FlashInv'
  <2>1. UNCHANGED <<shown, overlapped, cache, sess>>
    BY <1>7 DEF Redirect, histVars
  <2>2. pc[r] = "write" /\ \A q \in Reqs : pc'[q] = IF q = r THEN "save" ELSE pc[q]
    BY <1>7 DEF Redirect, Goto, TypeOK
  <2> QED
    BY <2>1, <2>2, FlashQuiet DEF Within, Has, Early
<1>8. ASSUME NEW r \in Reqs, WriteWithoutSaving(r) PROVE FlashInv'
  <2>1. UNCHANGED <<shown, overlapped, cache, sess>>
    BY <1>8 DEF WriteWithoutSaving, histVars
  <2>2. pc[r] = "write" /\ \A q \in Reqs : pc'[q] = IF q = r THEN "write" ELSE pc[q]
    BY <1>8 DEF WriteWithoutSaving, Goto, TypeOK
  <2> QED
    BY <2>1, <2>2, FlashQuiet DEF Within, Has, Early
<1>9. ASSUME NEW r \in Reqs, Return(r) PROVE FlashInv'
  <2>1. UNCHANGED <<shown, overlapped, cache>>
    BY <1>9 DEF Return, histVars
  <2>2. pc[r] = "write" /\ \A q \in Reqs : pc'[q] = IF q = r THEN "reply" ELSE pc[q]
    BY <1>9 DEF Return, Goto, TypeOK
  <2>3. \A x \in Reqs : ~Has(r, x)'
    BY <1>9, ReturnSess, Contents DEF Has
  <2>4. SameSess(r)
    BY <1>9, ReturnSess
  <2>5. \A x \in Reqs, q \in Reqs : Has(q, x)' => Has(q, x) /\ sess'[q].id = sess[q].id
    BY <2>3, <2>4 DEF SameSess, Has
  <2> QED
    BY <2>1, <2>2, <2>4, <2>5, FlashQuiet DEF Within, SameSess, Early
<1>10. ASSUME NEW r \in Reqs, DeleteSession(r) PROVE FlashInv'
  <2>1. UNCHANGED <<shown, overlapped, sess>> /\ sess[r].id \in Ids
    BY <1>10 DEF DeleteSession, TypeOK, Goto, Sess
  <2>2. pc[r] = "save" /\ \A q \in Reqs : pc'[q] = IF q = r THEN "write" ELSE pc[q]
    BY <1>10 DEF DeleteSession, Goto, TypeOK
  <2>3. \A x \in Reqs, i \in Ids : Within(x, i)' => Within(x, i) /\ i # sess[r].id
    BY <1>10 DEF DeleteSession, Within, TypeOK
  <2> QED
    BY <2>1, <2>2, <2>3, FlashGone
<1>11. ASSUME NEW r \in Reqs, SaveSession(r) PROVE FlashInv'
  <2>1. UNCHANGED <<shown, overlapped>> /\ sess[r].id \in Ids
    BY <1>11, SaveSess DEF SaveSession
  <2>2. pc[r] = "save" /\ \A q \in Reqs : pc'[q] = IF q = r THEN "write" ELSE pc[q]
    BY <1>11 DEF SaveSession, Goto, TypeOK
  <2>3. \A q \in Reqs : sess'[q].id = sess[q].id
    BY <1>11, SaveSess DEF SameParts, SameSess
  <2>4. \A q \in Reqs, x \in Reqs : Has(q, x)' = Has(q, x)
    BY <1>11, SaveSess DEF SameParts, SameSess, Has
  <2>5. SUFFICES ASSUME NEW x \in Reqs
        PROVE  /\ Early(x)' => Unborn(x)'
               /\ Single(BrowserOf[x])' => AtMostOnce(x)'
    BY DEF FlashInv
  <2>6. \A i \in Ids : Within(x, i)' = IF i = sess[r].id THEN Has(r, x) ELSE Within(x, i)
    BY <1>11, SaveSess, Contents DEF Within, Has
  <2>7. Early(x)' => Unborn(x)'
    BY <2>1, <2>2, <2>4, <2>6 DEF Early, FlashInv, Unborn
  <2>8. ASSUME Single(BrowserOf[x])' PROVE AtMostOnce(x)'
    <3>1. Single(BrowserOf[x]) /\ AtMostOnce(x)
      BY <2>1, <2>8 DEF Single, FlashInv
    <3>2. Has(r, x) => BrowserOf[r] = BrowserOf[x]
      BY DEF Owned, SessionsPrivate, Has
    <3>3. \A q \in Reqs : Has(r, x) /\ Has(q, x) => q = r
      BY <2>2, <3>1, <3>2, OneHas DEF UnderWay
    <3>4. \A i, j \in Ids : Within(x, i)' /\ Within(x, j)' => i = j
      BY <2>6, <3>1 DEF AtMostOnce
    <3>5. ASSUME NEW q \in Reqs, Has(q, x)
          PROVE  shown[x] = 0 /\ \A i \in Ids : Within(x, i)' => sess[q].id = i
      BY <2>6, <3>1, <3>3, <3>5 DEF AtMostOnce
    <3>6. ASSUME NEW i \in Ids, Within(x, i)', shown[x] = 1
          PROVE  \E q \in Reqs : BrowserOf[q] = BrowserOf[x] /\ pc'[q] = "save"
                                 /\ sess[q].id = i
      <4>1. i # sess[r].id /\ Within(x, i)
        BY <2>6, <3>1, <3>6 DEF AtMostOnce
      <4>2. PICK q \in Reqs : BrowserOf[q] = BrowserOf[x] /\ pc[q] = "save" /\ sess[q].id = i
        BY <3>1, <3>6, <4>1 DEF AtMostOnce
      <4> QED
        BY <2>2, <4>1, <4>2
    <3> QED
      BY <2>1, <2>3, <2>4, <3>1, <3>4, <3>5, <3>6 DEF AtMostOnce
  <2> QED
    BY <2>7, <2>8
<1>12. ASSUME NEW r \in Reqs, SkipSave(r) PROVE FlashInv'
  <2>1. UNCHANGED <<shown, overlapped, sess, cache>> /\ sess[r].id \in Ids
    BY <1>12 DEF SkipSave, TypeOK, Goto, Sess
  <2>2. pc[r] = "save" /\ \A q \in Reqs : pc'[q] = IF q = r THEN "write" ELSE pc[q]
    BY <1>12 DEF SkipSave, Goto, TypeOK
  <2>3. sess[r].id = r /\ cache[r] = Absent
    BY <1>12, <2>2, Contents DEF SkipSave, Empty, Flagged, Active
  <2>4. \A x \in Reqs, i \in Ids : Within(x, i)' => Within(x, i) /\ i # sess[r].id
    BY <2>1, <2>3 DEF Within
  <2> QED
    BY <2>1, <2>2, <2>4, FlashGone
<1>13. ASSUME NEW b \in Browsers, NEW d \in Dirs, CookieExpires(b, d) PROVE FlashInv'
  <2>1. UNCHANGED <<shown, overlapped, sess, cache, pc>>
    BY <1>13 DEF CookieExpires
  <2> QED
    BY <2>1, FlashQuiet DEF Within, Has, Early
<1>14. ASSUME NEW i \in Ids, Expire(i) PROVE FlashInv'
  <2>1. UNCHANGED <<shown, overlapped, sess, pc>>
    BY <1>14 DEF Expire
  <2>2. \A x \in Reqs, j \in Ids : Within(x, j)' => Within(x, j)
    BY <1>14 DEF Expire, Within, TypeOK
  <2> QED
    BY <2>1, <2>2, FlashQuiet DEF Has, Early
<1>15. CASE UNCHANGED vars
  BY <1>15, FlashQuiet DEF vars, histVars, Within, Has, Early
<1> QED
  BY <1>1, <1>2, <1>3, <1>4, <1>5, <1>6, <1>7, <1>8, <1>9, <1>10, <1>11, <1>12, <1>13, <1>14,
     <1>15 DEF Next, RequestStep

-----------------------------------------------------------------------------
(* No session leaves its browser, and none comes into the cache.           *)
LEMMA ReachQuiet ==
  ASSUME SessionsReachable, UNCHANGED <<cookie, given>>, strayed \subseteq strayed',
         \A i \in Ids : cache[i] = Absent => cache'[i] = Absent
  PROVE  SessionsReachable'
BY DEF SessionsReachable

LEMMA CarriedQuiet ==
  ASSUME Carried, UNCHANGED <<cookie, asked>>, strayed \subseteq strayed',
         \A q \in Reqs : UnderWay(q)' => UnderWay(q)
  PROVE  Carried'
BY DEF Carried, Kept

LEMMA CarriedStep ==
  ASSUME TypeOK, Alone, Carried, [Next]_vars
  PROVE  Carried'
PROOF
<1>1. ASSUME NEW r \in Reqs, Send(r) PROVE Carried'
  <2>1. UNCHANGED <<cookie, strayed>> /\ Goto(r, "idle", "before")
    BY <1>1 DEF Send
  <2>2. /\ \A q \in Reqs \ {r} : asked'[q] = asked[q] /\ (UnderWay(q)' => UnderWay(q))
        /\ asked'[r] = NoId \/ Kept(BrowserOf[r], asked'[r])
    BY <1>1, <2>1, SendAsks DEF Goto, UnderWay, TypeOK
  <2> QED
    BY <2>1, <2>2 DEF Carried, Kept
<1>2. ASSUME NEW r \in Reqs, Answered(r) PROVE Carried'
  <2>1. pc[r] = "reply" /\ \A q \in Reqs : pc'[q] = IF q = r THEN "done" ELSE pc[q]
    BY <1>2 DEF Answered, Goto, TypeOK
  <2>2. \A q \in Reqs \ {r} : asked'[q] = asked[q]
    BY <1>2 DEF Answered
  <2>3. PICK b, old : b = BrowserOf[r] /\ old = cookie[b][DirOf[r]]
    OBVIOUS
  <2>4. strayed' = IF \/ given[r] = NoId \/ old \in {NoId, given[r]}
                      \/ old = asked[r] /\ b \notin overlapped
                   THEN strayed ELSE strayed \cup {old}
    BY <1>2, <2>3 DEF Answered
  <2>5. SUFFICES ASSUME NEW q \in Reqs, UnderWay(q)', asked'[q] # NoId
        PROVE  asked'[q] \in strayed' \/ \E d \in Dirs : cookie'[BrowserOf[q]][d] = asked'[q]
    BY DEF Carried, Kept
  <2>6. q # r /\ UnderWay(q) /\ asked'[q] = asked[q]
    BY <2>1, <2>2, <2>5 DEF UnderWay
  <2>7. CASE asked[q] \in strayed
    BY <2>4, <2>6, <2>7
  <2>8. CASE Kept(BrowserOf[q], asked[q])
    <3>1. PICK d \in Dirs : cookie[BrowserOf[q]][d] = asked[q]
      BY <2>8 DEF Kept
    <3>2. BrowserOf[q] \in Browsers
      BY SessionAssumption
    <3>3. CASE given[r] # NoId /\ BrowserOf[q] = b /\ d = DirOf[r]
      <4>1. asked[q] = old /\ old # NoId
        BY <2>3, <2>5, <2>6, <3>1, <3>3
      <4>2. cookie'[b][d] = given[r]
        BY <1>2, <2>3, <3>2, <3>3, AnswerCookie
      <4>3. CASE old = given[r]
        BY <2>6, <3>3, <4>1, <4>2, <4>3 DEF Kept
      <4>4. CASE old # given[r] /\ b \in overlapped
        BY <2>4, <2>6, <3>3, <4>1, <4>4
      <4>5. CASE b \notin overlapped
        <5>1. Single(BrowserOf[q]) /\ UnderWay(r)
          BY <2>1, <3>2, <3>3, <4>5 DEF Single, UnderWay
        <5>2. r = q
          BY <2>3, <2>6, <3>3, <5>1 DEF Alone
        <5> QED
          BY <2>6, <5>2
      <4> QED
        BY <4>3, <4>4, <4>5
    <3>4. CASE ~(given[r] # NoId /\ BrowserOf[q] = b /\ d = DirOf[r])
      <4>1. cookie'[BrowserOf[q]][d] = cookie[BrowserOf[q]][d]
        BY <1>2, <2>3, <3>2, <3>4, AnswerCookie
      <4> QED
        BY <2>6, <3>1, <4>1 DEF Kept
    <3> QED
      BY <3>3, <3>4
  <2> QED
    BY <2>5, <2>6, <2>7, <2>8 DEF Carried
<1>3. ASSUME NEW r \in Reqs, NewSession(r) PROVE Carried'
  <2>1. UNCHANGED <<cookie, asked>> /\ strayed \subseteq strayed' /\ Goto(r, "before", "run")
    BY <1>3 DEF NewSession, answer, histVars
  <2> QED
    BY <2>1, CarriedQuiet DEF Goto, UnderWay, TypeOK
<1>4. ASSUME NEW r \in Reqs, LoadSession(r) PROVE Carried'
  <2>1. UNCHANGED <<cookie, asked>> /\ strayed \subseteq strayed' /\ Goto(r, "before", "run")
    BY <1>4 DEF LoadSession, answer, histVars
  <2> QED
    BY <2>1, CarriedQuiet DEF Goto, UnderWay, TypeOK
<1>5. ASSUME NEW r \in Reqs, Handle(r) PROVE Carried'
  <2>1. UNCHANGED <<cookie, asked>> /\ strayed \subseteq strayed' /\ Goto(r, "run", "write")
    BY <1>5 DEF Handle, answer, histVars
  <2> QED
    BY <2>1, CarriedQuiet DEF Goto, UnderWay, TypeOK
<1>6. ASSUME NEW r \in Reqs, Render(r) PROVE Carried'
  <2>1. UNCHANGED <<cookie, asked>> /\ strayed \subseteq strayed' /\ Goto(r, "write", "save")
    BY <1>6 DEF Render, answer
  <2> QED
    BY <2>1, CarriedQuiet DEF Goto, UnderWay, TypeOK
<1>7. ASSUME NEW r \in Reqs, Redirect(r) PROVE Carried'
  <2>1. UNCHANGED <<cookie, asked>> /\ strayed \subseteq strayed' /\ Goto(r, "write", "save")
    BY <1>7 DEF Redirect, answer, histVars
  <2> QED
    BY <2>1, CarriedQuiet DEF Goto, UnderWay, TypeOK
<1>8. ASSUME NEW r \in Reqs, WriteWithoutSaving(r) PROVE Carried'
  <2>1. UNCHANGED <<cookie, asked>> /\ strayed \subseteq strayed' /\ Goto(r, "write", "write")
    BY <1>8 DEF WriteWithoutSaving, histVars
  <2> QED
    BY <2>1, CarriedQuiet DEF Goto, UnderWay, TypeOK
<1>9. ASSUME NEW r \in Reqs, Return(r) PROVE Carried'
  <2>1. UNCHANGED <<cookie, asked>> /\ strayed \subseteq strayed' /\ Goto(r, "write", "reply")
    BY <1>9 DEF Return, answer, histVars
  <2> QED
    BY <2>1, CarriedQuiet DEF Goto, UnderWay, TypeOK
<1>10. ASSUME NEW r \in Reqs, DeleteSession(r) PROVE Carried'
  <2>1. UNCHANGED <<cookie, asked>> /\ strayed \subseteq strayed' /\ Goto(r, "save", "write")
    BY <1>10 DEF DeleteSession, Told
  <2> QED
    BY <2>1, CarriedQuiet DEF Goto, UnderWay, TypeOK
<1>11. ASSUME NEW r \in Reqs, SaveSession(r) PROVE Carried'
  <2>1. UNCHANGED <<cookie, asked>> /\ strayed \subseteq strayed' /\ Goto(r, "save", "write")
    BY <1>11 DEF SaveSession, Told
  <2> QED
    BY <2>1, CarriedQuiet DEF Goto, UnderWay, TypeOK
<1>12. ASSUME NEW r \in Reqs, SkipSave(r) PROVE Carried'
  <2>1. UNCHANGED <<cookie, asked>> /\ strayed \subseteq strayed' /\ Goto(r, "save", "write")
    BY <1>12 DEF SkipSave, Told
  <2> QED
    BY <2>1, CarriedQuiet DEF Goto, UnderWay, TypeOK
<1>13. ASSUME NEW b \in Browsers, NEW d \in Dirs, CookieExpires(b, d) PROVE Carried'
  <2>1. UNCHANGED <<pc, asked>> /\ strayed' = strayed \cup {cookie[b][d]}
    BY <1>13 DEF CookieExpires
  <2>2. \A c \in Browsers, e \in Dirs : cookie'[c][e] = cookie[c][e] \/ cookie[c][e] \in strayed'
    BY <1>13, <2>1, ExpireCookie
  <2> QED
    BY <2>1, <2>2, SessionAssumption DEF Carried, Kept, UnderWay
<1>14. ASSUME NEW i \in Ids, Expire(i) PROVE Carried'
  BY <1>14, CarriedQuiet DEF Expire, UnderWay
<1>15. CASE UNCHANGED vars
  BY <1>15, CarriedQuiet DEF vars, histVars, UnderWay
<1> QED
  BY <1>1, <1>2, <1>3, <1>4, <1>5, <1>6, <1>7, <1>8, <1>9, <1>10, <1>11, <1>12, <1>13, <1>14,
     <1>15 DEF Next, RequestStep

LEMMA ReachStep ==
  ASSUME TypeOK, Owned, Steady, Alone, Carried, SessionsReachable, [Next]_vars
  PROVE  SessionsReachable'
PROOF
<1>1. ASSUME NEW r \in Reqs, Send(r) PROVE SessionsReachable'
  BY <1>1, ReachQuiet DEF Send, answer
<1>2. ASSUME NEW r \in Reqs, Answered(r) PROVE SessionsReachable'
  <2>1. cache' = cache /\ pc[r] = "reply"
    BY <1>2 DEF Answered, Goto
  <2>2. \A q \in Reqs \ {r} : given'[q] = given[q]
    BY <1>2 DEF Answered
  <2>3. PICK b, old : b = BrowserOf[r] /\ old = cookie[b][DirOf[r]]
    OBVIOUS
  <2>4. strayed' = IF \/ given[r] = NoId \/ old \in {NoId, given[r]}
                      \/ old = asked[r] /\ b \notin overlapped
                   THEN strayed ELSE strayed \cup {old}
    BY <1>2, <2>3 DEF Answered
  <2>5. SUFFICES ASSUME NEW i \in Ids, cache[i] # Absent, i \notin strayed'
        PROVE  Kept(BrowserOf[i], i)' \/ \E q \in Reqs : given'[q] = i
    BY <2>1 DEF SessionsReachable, Kept
  <2>6. i # NoId /\ BrowserOf[i] \in Browsers /\ DirOf[r] \in Dirs /\ i \notin strayed
    BY <2>4, <2>5, SessionAssumption DEF Ids
  <2>7. CASE given[r] = i
    <3>1. BrowserOf[i] = BrowserOf[r]
      BY <2>6, <2>7 DEF Owned, OfBrowser
    <3>2. cookie'[BrowserOf[i]][DirOf[r]] = i
      BY <1>2, <2>6, <2>7, <3>1, AnswerCookie
    <3> QED
      BY <2>6, <3>2 DEF Kept
  <2>8. CASE \E q \in Reqs \ {r} : given[q] = i
    BY <2>2, <2>8
  <2>9. CASE given[r] # i /\ Kept(BrowserOf[i], i)
    <3>1. PICK d \in Dirs : cookie[BrowserOf[i]][d] = i
      BY <2>9 DEF Kept
    <3>2. CASE given[r] # NoId /\ BrowserOf[i] = b /\ d = DirOf[r]
      <4>1. i = old /\ old = asked[r] /\ b \notin overlapped
        BY <2>3, <2>4, <2>5, <2>6, <2>9, <3>1, <3>2
      <4>2. given[r] \in Ids /\ Ends(r, given[r])
        BY <2>1, <3>2 DEF Ends, TypeOK
      <4>3. Single(BrowserOf[r]) /\ UnderWay(r)
        BY <2>1, <2>3, <2>6, <3>2, <4>1 DEF Single, UnderWay
      <4>4. cache[asked[r]] = Absent
        BY <2>6, <2>9, <4>1, <4>2, <4>3 DEF Alone
      <4> QED
        BY <2>5, <4>1, <4>4
    <3>3. CASE ~(given[r] # NoId /\ BrowserOf[i] = b /\ d = DirOf[r])
      <4>1. cookie'[BrowserOf[i]][d] = i
        BY <1>2, <2>3, <2>6, <3>1, <3>3, AnswerCookie
      <4> QED
        BY <4>1 DEF Kept
    <3> QED
      BY <3>2, <3>3
  <2> QED
    BY <2>5, <2>6, <2>7, <2>8, <2>9 DEF SessionsReachable, Kept
<1>3. ASSUME NEW r \in Reqs, NewSession(r) PROVE SessionsReachable'
  BY <1>3, ReachQuiet DEF NewSession, answer, histVars
<1>4. ASSUME NEW r \in Reqs, LoadSession(r) PROVE SessionsReachable'
  BY <1>4, ReachQuiet DEF LoadSession, answer, histVars
<1>5. ASSUME NEW r \in Reqs, Handle(r) PROVE SessionsReachable'
  BY <1>5, HandleRest, ReachQuiet DEF answer, histVars
<1>6. ASSUME NEW r \in Reqs, Render(r) PROVE SessionsReachable'
  BY <1>6, ReachQuiet DEF Render, answer
<1>7. ASSUME NEW r \in Reqs, Redirect(r) PROVE SessionsReachable'
  BY <1>7, ReachQuiet DEF Redirect, answer, histVars
<1>8. ASSUME NEW r \in Reqs, WriteWithoutSaving(r) PROVE SessionsReachable'
  BY <1>8, ReachQuiet DEF WriteWithoutSaving, histVars
<1>9. ASSUME NEW r \in Reqs, Return(r) PROVE SessionsReachable'
  BY <1>9, ReachQuiet DEF Return, histVars
<1>10. ASSUME NEW r \in Reqs, DeleteSession(r) PROVE SessionsReachable'
  <2>1. cookie' = cookie /\ strayed \subseteq strayed'
    BY <1>10 DEF DeleteSession, Told
  <2>2. \A i \in Ids : cache[i] = Absent => cache'[i] = Absent
    BY <1>10 DEF DeleteSession, TypeOK
  <2>3. \A q \in Reqs, i \in Ids : given[q] = i => given'[q] = i
    <3>1. given[r] \in {NoId, sess[r].id}
      BY <1>10 DEF DeleteSession, Goto, Steady, Active
    <3>2. given' = given \/ given' = [given EXCEPT ![r] = sess[r].id]
      BY <1>10 DEF DeleteSession, SetCookie
    <3> QED
      BY <3>1, <3>2, SessionAssumption DEF TypeOK, Ids
  <2> QED
    BY <2>1, <2>2, <2>3 DEF SessionsReachable
<1>11. ASSUME NEW r \in Reqs, SaveSession(r) PROVE SessionsReachable'
  <2>1. /\ UNCHANGED <<cookie, asked>> /\ strayed \subseteq strayed'
        /\ pc[r] = "save"
    BY <1>11 DEF SaveSession, Told, Goto
  <2>2. sess[r].id \in Ids /\ \A i \in Ids : i # sess[r].id => cache'[i] = cache[i]
    BY <1>11, SaveSess
  <2>3. \A q \in Reqs, i \in Ids : given[q] = i => given'[q] = i
    <3>1. given[r] \in {NoId, sess[r].id}
      BY <2>1 DEF Steady, Active
    <3>2. given' = given \/ given' = [given EXCEPT ![r] = sess[r].id]
      BY <1>11 DEF SaveSession, SetCookie
    <3> QED
      BY <3>1, <3>2, SessionAssumption DEF TypeOK, Ids
  <2>4. ASSUME sess[r].id \notin strayed'
        PROVE  \/ Kept(BrowserOf[sess[r].id], sess[r].id)
               \/ \E q \in Reqs : given'[q] = sess[r].id
    <3>1. CASE given'[r] = sess[r].id
      BY <3>1
    <3>2. CASE given'[r] # sess[r].id
      <4>1. sess[r].id = asked[r]
        <5>1. given[r] # sess[r].id /\ writes[r] # 0
          BY <1>11, <3>2 DEF SaveSession, SetCookie, TypeOK
        <5> QED
          BY <1>11, <2>4, <5>1 DEF SaveSession, Told, Knows
      <4>2. BrowserOf[sess[r].id] = BrowserOf[r] /\ sess[r].id # NoId
        BY <2>2, SessionAssumption DEF Owned, OfBrowser, Ids
      <4> QED
        BY <2>1, <2>4, <4>1, <4>2 DEF Carried, UnderWay
    <3> QED
      BY <3>1, <3>2
  <2>5. SUFFICES ASSUME NEW i \in Ids, cache'[i] # Absent, i \notin strayed'
        PROVE  Kept(BrowserOf[i], i) \/ \E q \in Reqs : given'[q] = i
    BY <2>1 DEF SessionsReachable, Kept
  <2>6. CASE i = sess[r].id
    BY <2>4, <2>5, <2>6
  <2>7. CASE i # sess[r].id
    BY <2>1, <2>2, <2>3, <2>5, <2>7 DEF SessionsReachable, Kept
  <2> QED
    BY <2>6, <2>7
<1>12. ASSUME NEW r \in Reqs, SkipSave(r) PROVE SessionsReachable'
  BY <1>12, ReachQuiet DEF SkipSave, Told
<1>13. ASSUME NEW b \in Browsers, NEW d \in Dirs, CookieExpires(b, d) PROVE SessionsReachable'
  <2>1. UNCHANGED <<cache, given>> /\ strayed' = strayed \cup {cookie[b][d]}
    BY <1>13 DEF CookieExpires, answer
  <2>2. \A c \in Browsers, e \in Dirs : cookie'[c][e] = cookie[c][e] \/ cookie[c][e] \in strayed'
    BY <1>13, <2>1, ExpireCookie
  <2>3. \A i \in Ids : BrowserOf[i] \in Browsers
    BY SessionAssumption DEF Ids
  <2> QED
    BY <2>1, <2>2, <2>3 DEF SessionsReachable
<1>14. ASSUME NEW i \in Ids, Expire(i) PROVE SessionsReachable'
  <2>1. \A j \in Ids : cache[j] = Absent => cache'[j] = Absent
    BY <1>14 DEF Expire, TypeOK
  <2> QED
    BY <1>14, <2>1, ReachQuiet DEF Expire, answer
<1>15. CASE UNCHANGED vars
  BY <1>15, ReachQuiet DEF vars, answer, histVars
<1> QED
  BY <1>1, <1>2, <1>3, <1>4, <1>5, <1>6, <1>7, <1>8, <1>9, <1>10, <1>11, <1>12, <1>13, <1>14,
     <1>15 DEF Next, RequestStep

-----------------------------------------------------------------------------
(* Nothing the browser holds, or is about to get, changes.                 *)
LEMMA LatestQuiet ==
  ASSUME LatestInv, UNCHANGED <<latest, cookie, given, cache>>,
         overlapped \subseteq overlapped',
         \A q \in Reqs : given[q] # NoId => UnderWay(q)' = UnderWay(q)
  PROVE  LatestInv'
PROOF
<1>1. \A b \in Browsers, d \in Dirs, i \in Ids \cup {NoId} : Holds(b, d, i)' => Holds(b, d, i)
  BY DEF Holds
<1>2. \A b \in Browsers : Single(b)' => Single(b)
  BY DEF Single
<1>3. \A b \in Browsers, d \in Dirs, i \in Ids \cup {NoId} : Agrees(b, d, i)' = Agrees(b, d, i)
  BY DEF Stored, Agrees
<1> QED
  BY <1>1, <1>2, <1>3 DEF LatestInv

(* A save, or a deletion: what is stored is left for every cookie of the   *)
(* session, and for the one that the browser gets with the answer.         *)
LEMMA LatestSaved ==
  ASSUME TypeOK, Steady, Alone, LatestInv, NEW r \in Reqs, NEW s \in Ids, s = sess[r].id,
         NEW data \in SUBSET Reqs, NEW flash \in SUBSET Reqs,
         SetCookie(r, s), Leaves(r, data, flash), OfBrowser(s, BrowserOf[r]), Owned,
         UNCHANGED <<cookie, overlapped>>, pc[r] = "save",
         \A q \in Reqs : pc'[q] = IF q = r THEN "write" ELSE pc[q],
         \A i \in Ids : i # s => cache'[i] = cache[i],
         NEW kept, Stored(s)' = kept, kept.data = data, kept.flash = flash
  PROVE  LatestInv'
PROOF
<1> USE SessionAssumption DEF Ids
<1>1. s # NoId /\ given[r] \in {NoId, s} /\ BrowserOf[s] = BrowserOf[r]
  BY DEF Steady, Active, OfBrowser
<1>2. /\ \A q \in Reqs \ {r} : given'[q] = given[q]
      /\ given'[r] \in {NoId, s} /\ (given[r] # NoId => given'[r] = given[r])
  BY <1>1 DEF SetCookie, TypeOK
<1>3. \A q \in Reqs : UnderWay(q)' = UnderWay(q)
  BY DEF UnderWay
<1>4. \A i \in Ids \cup {NoId} : i # s => Stored(i)' = Stored(i)
  BY DEF Stored
<1>5. PICK new : new = [id |-> s, data |-> data, flash |-> flash]
  OBVIOUS
<1>6. \A b \in Browsers, d \in Dirs :
        latest'[b][d] =
          IF b = BrowserOf[r] /\ (cookie[b][d] = s \/ (d = DirOf[r] /\ given'[r] = s))
          THEN new ELSE latest[b][d]
  <2>1. LeftAs(r, sess[r].id, [id |-> sess[r].id, data |-> data, flash |-> flash])
    BY LeavesIs
  <2>2. LeftAs(r, s, new)
    BY <1>5, <2>1
  <2> QED
    BY <2>2 DEF LeftAs
<1>7. SUFFICES ASSUME NEW b \in Browsers, NEW d \in Dirs, Single(b),
                      NEW i \in Ids \cup {NoId}, Holds(b, d, i)'
      PROVE  Agrees(b, d, i)'
  BY DEF LatestInv, Single
<1>8. CASE i = s
  <2>1. b = BrowserOf[r]
    BY <1>1, <1>2, <1>7, <1>8 DEF Holds, Owned, OfBrowser
  <2>2. UnderWay(r) /\ \A q \in Reqs : BrowserOf[q] = b /\ UnderWay(q) => q = r
    BY <1>7, <2>1 DEF Alone, UnderWay
  <2>3. cookie[b][d] = s \/ (d = DirOf[r] /\ given'[r] = s)
    BY <1>3, <1>7, <1>8, <2>2 DEF Holds
  <2>4. latest'[b][d] = new
    BY <1>6, <2>1, <2>3
  <2> QED
    BY <1>5, <1>8, <2>4 DEF Agrees
<1>9. CASE i # s
  <2>1. Holds(b, d, i)
    BY <1>1, <1>2, <1>3, <1>7, <1>9 DEF Holds
  <2>2. latest'[b][d] = latest[b][d]
    <3>1. CASE b = BrowserOf[r] /\ d = DirOf[r] /\ given'[r] = s
      <4>1. UnderWay(r) /\ \A q \in Reqs : BrowserOf[q] = b /\ UnderWay(q) => q = r
        BY <1>7, <3>1 DEF Alone, UnderWay
      <4>2. FALSE
        BY <1>1, <1>3, <1>7, <1>9, <3>1, <4>1 DEF Holds
      <4> QED
        BY <4>2
    <3>2. CASE b = BrowserOf[r] /\ cookie[b][d] = s /\ ~(d = DirOf[r] /\ given'[r] = s)
      <4>1. UnderWay(r) /\ \A q \in Reqs : BrowserOf[q] = b /\ UnderWay(q) => q = r
        BY <1>7, <3>2 DEF Alone, UnderWay
      <4>2. FALSE
        BY <1>1, <1>2, <1>3, <1>7, <1>9, <3>2, <4>1 DEF Holds
      <4> QED
        BY <4>2
    <3> QED
      BY <1>6, <3>1, <3>2
  <2>3. Agrees(b, d, i)
    BY <1>7, <2>1 DEF LatestInv
  <2> QED
    BY <1>4, <1>9, <2>2, <2>3 DEF Agrees
<1> QED
  BY <1>8, <1>9

LEMMA LatestStep ==
  ASSUME TypeOK, TypeOK', Owned, Steady, Named, Flagged, Alone, LatestInv, [Next]_vars
  PROVE  LatestInv'
PROOF
<1>1. ASSUME NEW r \in Reqs, Send(r) PROVE LatestInv'
  <2>1. UNCHANGED <<latest, cookie, given, cache>> /\ overlapped \subseteq overlapped'
    BY <1>1 DEF Send, answer
  <2>2. pc[r] = "idle" /\ \A q \in Reqs : pc'[q] = IF q = r THEN "before" ELSE pc[q]
    BY <1>1 DEF Send, Goto, TypeOK
  <2>3. given[r] = NoId
    BY <2>2 DEF Steady
  <2>4. \A q \in Reqs : given[q] # NoId => UnderWay(q)' = UnderWay(q)
    BY <2>2, <2>3 DEF UnderWay
  <2> QED
    BY <2>1, <2>4, LatestQuiet
<1>2. ASSUME NEW r \in Reqs, Answered(r) PROVE LatestInv'
  <2>1. UNCHANGED <<latest, cache, overlapped>>
    BY <1>2 DEF Answered
  <2>2. pc[r] = "reply" /\ \A q \in Reqs : pc'[q] = IF q = r THEN "done" ELSE pc[q]
    BY <1>2 DEF Answered, Goto, TypeOK
  <2>3. \A q \in Reqs : given'[q] = IF q = r THEN NoId ELSE given[q]
    BY <1>2 DEF Answered, TypeOK
  <2>4. \A b \in Browsers, d \in Dirs :
          cookie'[b][d] = IF given[r] # NoId /\ b = BrowserOf[r] /\ d = DirOf[r]
                          THEN given[r] ELSE cookie[b][d]
    BY <1>2, AnswerCookie
  <2>5. SUFFICES ASSUME NEW b \in Browsers, NEW d \in Dirs, Single(b),
                        NEW i \in Ids \cup {NoId}, Holds(b, d, i)'
        PROVE  Holds(b, d, i)
    BY <2>1 DEF LatestInv, Single, Stored, Agrees
  <2>6. CASE b # BrowserOf[r] \/ d # DirOf[r]
    BY <2>2, <2>3, <2>4, <2>5, <2>6 DEF Holds, UnderWay
  <2>7. CASE b = BrowserOf[r] /\ d = DirOf[r]
    <3>1. \A q \in Reqs : BrowserOf[q] = b => ~UnderWay(q)'
      BY <2>2, <2>5, <2>7 DEF Alone, UnderWay
    <3>2. cookie'[b][d] = i /\ \A q \in Reqs : BrowserOf[q] = b /\ DirOf[q] = d => given'[q] = NoId
      BY <2>5, <3>1 DEF Holds
    <3>3. CASE given[r] = NoId
      BY <2>3, <2>4, <2>7, <3>2, <3>3 DEF Holds
    <3>4. CASE given[r] # NoId
      BY <2>2, <2>4, <2>7, <3>2, <3>4 DEF Holds, UnderWay
    <3> QED
      BY <3>3, <3>4
  <2> QED
    BY <2>6, <2>7
<1>3. ASSUME NEW r \in Reqs, NewSession(r) PROVE LatestInv'
  <2>1. UNCHANGED <<latest, cookie, given, cache, overlapped>>
    BY <1>3 DEF NewSession, answer, histVars
  <2>2. pc[r] = "before" /\ \A q \in Reqs : pc'[q] = IF q = r THEN "run" ELSE pc[q]
    BY <1>3 DEF NewSession, Goto, TypeOK
  <2>3. \A q \in Reqs : UnderWay(q)' = UnderWay(q)
    BY <2>2 DEF UnderWay
  <2> QED
    BY <2>1, <2>3, LatestQuiet
<1>4. ASSUME NEW r \in Reqs, LoadSession(r) PROVE LatestInv'
  <2>1. UNCHANGED <<latest, cookie, given, cache, overlapped>>
    BY <1>4 DEF LoadSession, answer, histVars
  <2>2. pc[r] = "before" /\ \A q \in Reqs : pc'[q] = IF q = r THEN "run" ELSE pc[q]
    BY <1>4 DEF LoadSession, Goto, TypeOK
  <2>3. \A q \in Reqs : UnderWay(q)' = UnderWay(q)
    BY <2>2 DEF UnderWay
  <2> QED
    BY <2>1, <2>3, LatestQuiet
<1>5. ASSUME NEW r \in Reqs, Handle(r) PROVE LatestInv'
  <2>1. UNCHANGED <<latest, cookie, given, cache, overlapped>>
    BY <1>5, HandleRest DEF answer, histVars
  <2>2. pc[r] = "run" /\ \A q \in Reqs : pc'[q] = IF q = r THEN "write" ELSE pc[q]
    BY <1>5, HandleRest DEF Goto, TypeOK
  <2>3. \A q \in Reqs : UnderWay(q)' = UnderWay(q)
    BY <2>2 DEF UnderWay
  <2> QED
    BY <2>1, <2>3, LatestQuiet
<1>6. ASSUME NEW r \in Reqs, Render(r) PROVE LatestInv'
  <2>1. UNCHANGED <<latest, cookie, given, cache, overlapped>>
    BY <1>6 DEF Render, answer, histVars
  <2>2. pc[r] = "write" /\ \A q \in Reqs : pc'[q] = IF q = r THEN "save" ELSE pc[q]
    BY <1>6 DEF Render, Goto, TypeOK
  <2>3. \A q \in Reqs : UnderWay(q)' = UnderWay(q)
    BY <2>2 DEF UnderWay
  <2> QED
    BY <2>1, <2>3, LatestQuiet
<1>7. ASSUME NEW r \in Reqs, Redirect(r) PROVE LatestInv'
  <2>1. UNCHANGED <<latest, cookie, given, cache, overlapped>>
    BY <1>7 DEF Redirect, answer, histVars
  <2>2. pc[r] = "write" /\ \A q \in Reqs : pc'[q] = IF q = r THEN "save" ELSE pc[q]
    BY <1>7 DEF Redirect, Goto, TypeOK
  <2>3. \A q \in Reqs : UnderWay(q)' = UnderWay(q)
    BY <2>2 DEF UnderWay
  <2> QED
    BY <2>1, <2>3, LatestQuiet
<1>8. ASSUME NEW r \in Reqs, WriteWithoutSaving(r) PROVE LatestInv'
  <2>1. UNCHANGED <<latest, cookie, given, cache, overlapped>>
    BY <1>8 DEF WriteWithoutSaving, answer, histVars
  <2>2. pc[r] = "write" /\ \A q \in Reqs : pc'[q] = IF q = r THEN "write" ELSE pc[q]
    BY <1>8 DEF WriteWithoutSaving, Goto, TypeOK
  <2>3. \A q \in Reqs : UnderWay(q)' = UnderWay(q)
    BY <2>2 DEF UnderWay
  <2> QED
    BY <2>1, <2>3, LatestQuiet
<1>9. ASSUME NEW r \in Reqs, Return(r) PROVE LatestInv'
  <2>1. UNCHANGED <<latest, cookie, given, cache, overlapped>>
    BY <1>9 DEF Return, answer, histVars
  <2>2. pc[r] = "write" /\ \A q \in Reqs : pc'[q] = IF q = r THEN "reply" ELSE pc[q]
    BY <1>9 DEF Return, Goto, TypeOK
  <2>3. \A q \in Reqs : UnderWay(q)' = UnderWay(q)
    BY <2>2 DEF UnderWay
  <2> QED
    BY <2>1, <2>3, LatestQuiet
<1>10. ASSUME NEW r \in Reqs, DeleteSession(r) PROVE LatestInv'
  <2>1. UNCHANGED <<cookie, asked, overlapped>> /\ sess[r].id \in Ids
    BY <1>10 DEF DeleteSession, TypeOK, Goto, Sess
  <2>2. pc[r] = "save" /\ \A q \in Reqs : pc'[q] = IF q = r THEN "write" ELSE pc[q]
    BY <1>10 DEF DeleteSession, Goto, TypeOK
  <2>3. /\ \A i \in Ids : i # sess[r].id => cache'[i] = cache[i]
        /\ cache'[sess[r].id] = Absent
    BY <1>10, <2>1 DEF DeleteSession, TypeOK
  <2>4. PICK s \in Ids : s = sess[r].id
    BY <2>1
  <2>5. Stored(s)' = Nothing
    BY <2>3, <2>4 DEF Stored
  <2>6. /\ SetCookie(r, s) /\ Leaves(r, {}, {}) /\ {} \in SUBSET Reqs
        /\ OfBrowser(s, BrowserOf[r])
    BY <1>10, <2>4 DEF DeleteSession, Told, Owned
  <2> QED
    BY ZenonT(30), <2>1, <2>2, <2>3, <2>4, <2>5, <2>6, LatestSaved, Contents
<1>11. ASSUME NEW r \in Reqs, SaveSession(r) PROVE LatestInv'
  <2>1. UNCHANGED <<cookie, asked, overlapped>> /\ sess[r].id \in Ids
    BY <1>11, SaveSess DEF SaveSession
  <2>2. pc[r] = "save" /\ \A q \in Reqs : pc'[q] = IF q = r THEN "write" ELSE pc[q]
    BY <1>11 DEF SaveSession, Goto, TypeOK
  <2>3. /\ \A i \in Ids : i # sess[r].id => cache'[i] = cache[i]
        /\ cache'[sess[r].id] = sess'[r].c /\ sess'[r].c # Absent
        /\ sess'[r].c.data = sess[r].c.data /\ sess'[r].c.flash = sess[r].c.flash
    BY <1>11, SaveSess, Contents
  <2>4. PICK s \in Ids : s = sess[r].id /\ s # NoId
    BY <2>1, SessionAssumption DEF Ids
  <2>5. Stored(s)' = sess'[r].c
    BY <2>3, <2>4 DEF Stored
  <2>6. /\ SetCookie(r, s) /\ Leaves(r, sess[r].c.data, sess[r].c.flash)
        /\ OfBrowser(s, BrowserOf[r])
    BY <1>11, <2>4 DEF SaveSession, Told, Owned
  <2>7. sess[r].c.data \in SUBSET Reqs /\ sess[r].c.flash \in SUBSET Reqs
    BY <1>11, <2>3, SaveSess, Contents
  <2> QED
    BY <2>1, <2>2, <2>3, <2>4, <2>5, <2>6, <2>7, LatestSaved
<1>12. ASSUME NEW r \in Reqs, SkipSave(r) PROVE LatestInv'
  <2>1. UNCHANGED <<cookie, given, cache, overlapped>> /\ Leaves(r, {}, {})
    BY <1>12 DEF SkipSave
  <2>2. pc[r] = "save" /\ \A q \in Reqs : pc'[q] = IF q = r THEN "write" ELSE pc[q]
    BY <1>12 DEF SkipSave, Goto, TypeOK
  <2>3. sess[r].id = r /\ given[r] = NoId
    BY <1>12, <2>2, Contents DEF SkipSave, Empty, Flagged, Active
  <2>4. r \in Ids /\ r # NoId /\ given'[r] # r
    BY <2>1, <2>3, SessionAssumption DEF Ids
  <2>5. \A b \in Browsers, d \in Dirs : cookie[b][d] # r
    BY <2>2, <2>4 DEF Named, Fledged
  <2>6. \A b \in Browsers, d \in Dirs : latest'[b][d] = latest[b][d]
    <3>1. sess[r].id \in Ids /\ {} \in SUBSET Reqs
      BY <2>3, <2>4
    <3>2. LeftAs(r, sess[r].id, [id |-> sess[r].id, data |-> {}, flash |-> {}])
      BY <2>1, <3>1, LeavesIs
    <3> QED
      BY <2>3, <2>4, <2>5, <3>2 DEF LeftAs
  <2>7. latest \in [Browsers -> [Dirs -> Latests]] /\ latest' \in [Browsers -> [Dirs -> Latests]]
    BY DEF TypeOK, Latests
  <2>8. \A b \in Browsers : latest'[b] = latest[b]
    BY <2>6, <2>7
  <2>9. latest' = latest
    BY <2>7, <2>8
  <2>10. \A q \in Reqs : UnderWay(q)' = UnderWay(q)
    BY <2>2 DEF UnderWay
  <2> QED
    BY <2>1, <2>9, <2>10, LatestQuiet
<1>13. ASSUME NEW b \in Browsers, NEW d \in Dirs, CookieExpires(b, d) PROVE LatestInv'
  <2>1. UNCHANGED <<cache, overlapped, given, pc>>
    BY <1>13 DEF CookieExpires, answer
  <2>2. \A c \in Browsers, e \in Dirs :
          /\ cookie'[c][e] = IF c = b /\ e = d THEN NoId ELSE cookie[c][e]
          /\ latest'[c][e] = IF c = b /\ e = d THEN NoneYet ELSE latest[c][e]
    BY <1>13, ExpireCookie
  <2>3. \A q \in Reqs : BrowserOf[q] = b => ~UnderWay(q)
    BY <1>13 DEF CookieExpires, Busy, UnderWay
  <2>4. SUFFICES ASSUME NEW c \in Browsers, NEW e \in Dirs, Single(c),
                        NEW i \in Ids \cup {NoId}, Holds(c, e, i)'
        PROVE  Agrees(c, e, i)'
    BY <2>1 DEF LatestInv, Single
  <2>5. CASE c = b /\ e = d
    <3>1. i = NoId
      BY <2>1, <2>2, <2>3, <2>4, <2>5 DEF Holds, UnderWay
    <3>2. NoneYet.data = {} /\ NoneYet.flash = {} /\ Stored(i)' = Nothing
      BY <3>1 DEF NoneYet, Stored
    <3> QED
      BY <2>2, <2>5, <3>2, Contents DEF Agrees
  <2>6. CASE ~(c = b /\ e = d)
    <3>1. Holds(c, e, i) /\ latest'[c][e] = latest[c][e]
      BY <2>1, <2>2, <2>4, <2>6 DEF Holds, UnderWay
    <3>2. Agrees(c, e, i) /\ Stored(i)' = Stored(i)
      BY <2>1, <2>4, <3>1 DEF LatestInv, Stored
    <3> QED
      BY <3>1, <3>2 DEF Agrees
  <2> QED
    BY <2>5, <2>6
<1>14. ASSUME NEW j \in Ids, Expire(j) PROVE LatestInv'
  <2>1. UNCHANGED <<overlapped, given, pc, cookie>>
    BY <1>14 DEF Expire, answer
  <2>2. \A b \in Browsers, d \in Dirs :
          latest'[b][d] = IF latest[b][d].id = j THEN NoneYet ELSE latest[b][d]
    BY <1>14, ExpireLatest
  <2>3. \A i \in Ids \cup {NoId} : Stored(i)' = IF i = j THEN Nothing ELSE Stored(i)
    BY <1>14, SessionAssumption DEF Expire, TypeOK, Stored, Ids
  <2>4. SUFFICES ASSUME NEW b \in Browsers, NEW d \in Dirs, Single(b),
                        NEW i \in Ids \cup {NoId}, Holds(b, d, i)
        PROVE  Agrees(b, d, i)'
    BY <2>1 DEF LatestInv, Single, Holds, UnderWay
  <2>5. Agrees(b, d, i)
    BY <2>4 DEF LatestInv
  <2>6. NoneYet.data = {} /\ NoneYet.flash = {}
    BY DEF NoneYet
  <2>7. CASE i = j
    BY <2>2, <2>3, <2>5, <2>6, <2>7, Contents DEF Agrees
  <2>8. CASE i # j
    BY <2>2, <2>3, <2>5, <2>6, <2>8 DEF Agrees
  <2> QED
    BY <2>7, <2>8
<1>15. CASE UNCHANGED vars
  BY <1>15, LatestQuiet DEF vars, answer, histVars, UnderWay
<1> QED
  BY <1>1, <1>2, <1>3, <1>4, <1>5, <1>6, <1>7, <1>8, <1>9, <1>10, <1>11, <1>12, <1>13, <1>14,
     <1>15 DEF Next, RequestStep

-----------------------------------------------------------------------------
LEMMA SessInit == Init => SessInv /\ FlashInv /\ LatestInv /\ Carried /\ SessionsReachable
PROOF
<1> SUFFICES ASSUME Init
             PROVE  SessInv /\ FlashInv /\ LatestInv /\ Carried /\ SessionsReachable
  OBVIOUS
<1> USE SessionAssumption, Contents DEF Init, Ids
<1>1. TypeInv
  BY DEF TypeInv, TypeOK, NoneYet
<1>2. Owned
  BY DEF Owned, OfBrowser, SessionsPrivate
<1>3. Steady /\ Named /\ Flagged /\ Alone
  BY DEF Steady, Named, Flagged, Alone, Active, Fledged, UnderWay
<1>4. FlashInv
  BY DEF FlashInv, Unborn, AtMostOnce, Within, Has
<1>5. LatestInv
  BY DEF LatestInv, Holds, Stored, NoneYet, Agrees
<1>6. Carried /\ SessionsReachable
  BY DEF Carried, UnderWay, SessionsReachable
<1> QED
  BY <1>1, <1>2, <1>3, <1>4, <1>5, <1>6 DEF SessInv

LEMMA SessStep == SessInv /\ [Next]_vars => SessInv'
PROOF
<1> SUFFICES ASSUME SessInv, [Next]_vars PROVE SessInv'
  OBVIOUS
<1> USE DEF SessInv
<1>1. TypeInv' /\ TypeOK /\ TypeOK'
  BY TypeStep DEF TypeInv
<1> QED
  BY <1>1, OwnedStep, SteadyStep, NamedStep, FlaggedStep, AloneStep

LEMMA SessAlways == Spec => []SessInv
BY SessInit, SessStep, PTL DEF Spec

(* The variables of Session have their types: in particular, the handler   *)
(* of a request always has a session with an id.                           *)
THEOREM TypeCorrect == Spec => []TypeOK
PROOF
<1>1. SessInv => TypeOK
  BY DEF SessInv, TypeInv
<1> QED
  BY <1>1, SessAlways, PTL

(* A request sees what requests of its own browser stored, and no other:   *)
(* Session.Before loads by the cookie, and a cookie is given to the        *)
(* browser of the session only.                                            *)
THEOREM PrivateCorrect == Spec => []SessionsPrivate
PROOF
<1>1. SessInv => SessionsPrivate
  BY DEF SessInv, Owned
<1> QED
  BY <1>1, SessAlways, PTL

(* A browser that sends one request at a time shows a flash message once.  *)
THEOREM FlashCorrect == Spec => []FlashShownOnce
PROOF
<1>1. SessInv /\ FlashInv /\ [Next]_vars => FlashInv'
  BY FlashStep, SessStep DEF SessInv, TypeInv
<1>2. FlashInv => FlashShownOnce
  BY SessionAssumption DEF FlashInv, FlashShownOnce, Single, AtMostOnce
<1> QED
  BY <1>1, <1>2, SessInit, SessAlways, PTL DEF Spec

(* Such a browser finds, with its next request and whichever of the        *)
(* cookies that carries, what its last page left with the session of this  *)
(* cookie.  The invariant says it of the cookies that it has while no      *)
(* answer is under way that brings another.                                *)
THEOREM LatestCorrect == Spec => []LoadsLatest
PROOF
<1>1. SessInv /\ LatestInv /\ [Next]_vars => LatestInv'
  BY LatestStep, SessStep DEF SessInv, TypeInv
<1>2. SessInv /\ LatestInv => LoadsLatest
  <2> SUFFICES ASSUME SessInv, LatestInv, NEW b \in Browsers, NEW d \in Dirs,
                      b \notin overlapped, ~Busy(b)
               PROVE  /\ Stored(cookie[b][d]).data = latest[b][d].data
                      /\ Stored(cookie[b][d]).flash = latest[b][d].flash
    BY DEF LoadsLatest
  <2>1. \A q \in Reqs : BrowserOf[q] = b => given[q] = NoId
    BY DEF SessInv, Steady, Busy
  <2>2. cookie[b][d] \in Ids \cup {NoId}
    BY DEF SessInv, TypeInv, TypeOK
  <2>3. Holds(b, d, cookie[b][d]) /\ Single(b)
    BY <2>1 DEF Holds, Single
  <2> QED
    BY <2>2, <2>3 DEF LatestInv, Agrees
<1> QED
  BY <1>1, <1>2, SessInit, SessAlways, PTL DEF Spec

(* No save leaves a session under an id that its browser will never carry, *)
(* also with requests that overlap, but for the cases of strayed: the      *)
(* invariant is that a browser keeps the cookie that a request carries, or *)
(* the session of this cookie has strayed.                                 *)
THEOREM ReachableCorrect == Spec => []SessionsReachable
PROOF
<1>1. SessInv /\ Carried /\ [Next]_vars => Carried'
  BY CarriedStep DEF SessInv, TypeInv
<1>2. SessInv /\ Carried /\ SessionsReachable /\ [Next]_vars => SessionsReachable'
  BY ReachStep DEF SessInv, TypeInv
<1> QED
  BY <1>1, <1>2, SessInit, SessAlways, PTL DEF Spec

=============================================================================
