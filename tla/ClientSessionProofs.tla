------------------------ MODULE ClientSessionProofs ------------------------
(***************************************************************************)
(* Proofs about ClientSession, for any tabs, calls and sessions.           *)
(***************************************************************************)
EXTENDS ClientSession, TLAPS

-----------------------------------------------------------------------------
(* The inductive invariant.                                                *)

Carrying == {"loggedIn", "rotated"}

(* An id that is still new is in nobody's hands.                           *)
NewUnused ==
  \A s \in Session : sessions[s].status = "new" =>
    /\ sessions[s].login = None /\ jar.refresh # s
    /\ \A x \in Session : sessions[x].login # s
    /\ \A c \in Call : calls[c].session # s

(* A session that was created belongs to a login, of which one lives.      *)
LoginKnown == \A s \in Session : sessions[s].status # "new" => sessions[s].login \in Session

Sole == \A s, x \in Session : Live(s) /\ Live(x) /\ Login(s) = Login(x) => s = x

(* A session on its way to the jar is in this answer only, and dies of     *)
(* nothing that does not spoil its login.                                  *)
InFlight ==
  \A c \in Call : calls[c].pc \in Carrying =>
    LET s == calls[c].session
    IN /\ s # None /\ jar.refresh # s
       /\ \A d \in Call \ {c} : calls[d].session # s
       /\ Live(s) \/ Login(s) \in spoilt

Named == \A c \in Call : calls[c].pc \in {"revoking", "loggedOut"} => calls[c].session # None

(* What a call knows when nothing raced it.                                *)
Fits(k) ==
  /\ k.pc = "me" => /\ k.session \in {None, jar.refresh}
                    /\ k.again => k.session = jar.refresh /\ Live(k.session)
  /\ k.pc = "unauthorized" => ~k.again
  /\ k.pc = "rotate" => k.session = jar.refresh
  /\ k.pc = "shown" => k.session = jar.refresh /\ Live(k.session)
  /\ k.pc = "refused" => ~Live(jar.refresh)
  /\ k.pc \in Carrying \cup {"revoking"} => Live(k.session)
  /\ k.pc = "loggedOut" => \A s \in Session : Live(s) => Login(s) # Login(k.session)

Unraced ==
  \A c \in Call : (calls[c].pc # "idle" /\ ~calls[c].raced) =>
    Fits(calls[c]) /\ ~Overlapped(c)

(* After a sign-out that holds, nothing is on its way to the jar.          *)
Still(k) == k.pc \in Races => k.pc \in {"rotate", "logout"} /\ k.session = None

Quiet ==
  signedOut # None =>
    /\ jar = Empty
    /\ \A s \in Session : Live(s) => Login(s) # signedOut
    /\ \A c \in Call : Still(calls[c])

IInv ==
  /\ TypeOK
  /\ NewUnused /\ LoginKnown /\ Sole
  /\ InFlight /\ Named
  /\ SessionKept
  /\ Unraced
  /\ Quiet

-----------------------------------------------------------------------------
(* Facts about rows and calls.                                             *)

LEMMA LoginFacts ==
  ASSUME TypeOK, LoginKnown, NEW s \in Session, Live(s)
  PROVE  Login(s) = sessions[s].login /\ Login(s) \in Session /\ Login(s) # None
  BY ClientAssumption DEF LoginKnown, Live, Login

LEMMA LoginTyped ==
  ASSUME TypeOK, NEW s \in Session \cup {None}
  PROVE  Login(s) \in Session \cup {None}
  BY DEF TypeOK, Login, Row

LEMMA SameRows ==
  ASSUME sessions' = sessions
  PROVE  \A s : (Live(s)' <=> Live(s)) /\ Login(s)' = Login(s)
  BY DEF Live, Login

LEMMA NoCallFacts ==
  /\ NoCall \in CallState /\ NoCall.pc = "idle" /\ NoCall.session = None /\ ~NoCall.again
  /\ NoCall.pc \notin Races /\ NoCall.pc \notin Carrying
  BY DEF NoCall, CallState, Races, Moving, Leaving, Carrying

LEMMA BecomesFacts ==
  ASSUME TypeOK, NEW c \in Call, NEW k \in CallState, Becomes(c, k)
  PROVE  /\ calls' \in [Call -> CallState] /\ calls'[c] = k
         /\ \A d \in Call : d # c =>
              /\ calls'[d].pc = calls[d].pc /\ calls'[d].session = calls[d].session
              /\ calls'[d].again = calls[d].again
              /\ ~calls'[d].raced => ~calls[d].raced /\ k.pc \notin Races
<1>1. calls \in [Call -> CallState]
  BY DEF TypeOK
<1>2. ASSUME NEW d \in Call, d # c
      PROVE  /\ calls'[d] \in CallState
             /\ calls'[d].pc = calls[d].pc /\ calls'[d].session = calls[d].session
             /\ calls'[d].again = calls[d].again
             /\ ~calls'[d].raced => ~calls[d].raced /\ k.pc \notin Races
  <2>1. calls[d] \in CallState
    BY <1>1
  <2>2. CASE k.pc \in Races
    <3>1. calls'[d] = [calls[d] EXCEPT !.raced = TRUE]
      BY <1>2, <2>2 DEF Becomes
    <3> QED BY <2>1, <3>1 DEF CallState
  <2>3. CASE k.pc \notin Races
    <3>1. calls'[d] = calls[d]
      BY <1>2, <2>3 DEF Becomes
    <3> QED BY <2>1, <2>3, <3>1
  <2> QED BY <2>2, <2>3
<1>3. calls'[c] = k
  BY DEF Becomes
<1>4. calls' \in [Call -> CallState]
  <2>1. \A d \in Call : calls'[d] \in CallState
    BY <1>2, <1>3
  <2>2. calls' = [d \in Call |-> calls'[d]]
    BY DEF Becomes
  <2> QED BY <2>1, <2>2
<1> QED BY <1>2, <1>3, <1>4

LEMMA InitIInv == Init => IInv
<1> SUFFICES ASSUME Init PROVE IInv
  OBVIOUS
<1>1. calls \in [Call -> CallState] /\ \A c \in Call : calls[c] = NoCall
  BY NoCallFacts DEF Init
<1>2. \A s \in Session : sessions[s] = [status |-> "new", login |-> None] /\ ~Live(s)
  BY DEF Init, Live
<1>3. jar = Empty /\ jar.refresh = None /\ jar.token = None
  BY DEF Init, Empty
<1>4. TypeOK
  BY <1>1, <1>3 DEF Init, TypeOK, Row, Empty
<1>5. NewUnused /\ LoginKnown /\ Sole
  BY <1>1, <1>2, <1>3, NoCallFacts, ClientAssumption DEF NewUnused, LoginKnown, Sole
<1>6. InFlight /\ Named /\ Unraced
  BY <1>1, NoCallFacts DEF InFlight, Named, Unraced, NoCall
<1>7. SessionKept
  BY <1>2, ClientAssumption DEF SessionKept
<1>8. Quiet
  BY DEF Init, Quiet
<1> QED BY <1>4, <1>5, <1>6, <1>7, <1>8 DEF IInv

-----------------------------------------------------------------------------
(* Steps of one call that change neither the sessions nor the jar.         *)

LEMMA CallStep ==
  ASSUME IInv, NEW c \in Call, NEW k \in CallState, Becomes(c, k),
         sessions' = sessions, jar' = jar, profile' \in [Tab -> Session \cup {None}],
         spoilt \subseteq spoilt', spoilt' \subseteq Session,
         signedOut' \in {signedOut, None},
         k.pc \notin Carrying,
         k.session \in {None, jar.refresh, calls[c].session},
         calls[c].pc \in Carrying => Login(calls[c].session) \in spoilt',
         k.pc \in {"revoking", "loggedOut"} => k.session # None,
         (k.pc # "idle" /\ ~k.raced) => Fits(k) /\ ~Overlapped(c),
         signedOut' # None => Still(k)
  PROVE  IInv'
<1>1. /\ calls' \in [Call -> CallState] /\ calls'[c] = k
      /\ \A d \in Call : d # c =>
           /\ calls'[d].pc = calls[d].pc /\ calls'[d].session = calls[d].session
           /\ calls'[d].again = calls[d].again
           /\ ~calls'[d].raced => ~calls[d].raced /\ k.pc \notin Races
  BY BecomesFacts DEF IInv
<1>2. \A s : (Live(s)' <=> Live(s)) /\ Login(s)' = Login(s)
  BY SameRows
<1>3. TypeOK'
  BY <1>1 DEF IInv, TypeOK
<1>4. NewUnused'
  <2>1. ASSUME NEW s \in Session, sessions[s].status = "new", NEW d \in Call
        PROVE  calls'[d].session # s
    <3>1. calls[d].session # s /\ calls[c].session # s /\ jar.refresh # s /\ None # s
      BY <2>1, ClientAssumption DEF IInv, NewUnused
    <3> QED BY <1>1, <3>1
  <2> QED BY <2>1 DEF IInv, NewUnused
<1>5. LoginKnown' /\ Sole'
  BY <1>2 DEF IInv, LoginKnown, Sole
<1>6. InFlight'
  <2> SUFFICES ASSUME NEW d \in Call, calls'[d].pc \in Carrying
               PROVE  /\ calls'[d].session # None /\ jar.refresh # calls'[d].session
                      /\ \A e \in Call \ {d} : calls'[e].session # calls'[d].session
                      /\ Live(calls'[d].session) \/ Login(calls'[d].session) \in spoilt'
    BY <1>2 DEF InFlight
  <2>1. d # c /\ calls[d].pc \in Carrying /\ calls'[d].session = calls[d].session
    BY <1>1
  <2>2. /\ calls[d].session # None /\ jar.refresh # calls[d].session
        /\ \A e \in Call \ {d} : calls[e].session # calls[d].session
        /\ Live(calls[d].session) \/ Login(calls[d].session) \in spoilt
    BY <2>1 DEF IInv, InFlight
  <2>3. \A e \in Call \ {d} : calls'[e].session # calls[d].session
    BY <1>1, <2>1, <2>2
  <2> QED BY <2>1, <2>2, <2>3
<1>7. Named'
  BY <1>1 DEF IInv, Named
<1>8. SessionKept'
  <2> SUFFICES ASSUME NEW l \in Session, sessions[l].login = l, l \notin spoilt'
               PROVE  \E s \in Session :
                        /\ Live(s) /\ Login(s) = l
                        /\ \/ jar.refresh = s
                           \/ \E d \in Call : calls'[d].pc \in Carrying /\ calls'[d].session = s
    BY <1>2 DEF SessionKept, Carrying
  <2>1. PICK s \in Session :
          /\ Live(s) /\ Login(s) = l
          /\ \/ jar.refresh = s
             \/ \E d \in Call : calls[d].pc \in Carrying /\ calls[d].session = s
    BY DEF IInv, SessionKept, Carrying
  <2>2. ASSUME NEW d \in Call, calls[d].pc \in Carrying, calls[d].session = s
        PROVE  calls'[d].pc \in Carrying /\ calls'[d].session = s
    <3>1. d # c
      BY <2>1, <2>2
    <3> QED BY <1>1, <2>2, <3>1
  <2> QED BY <2>1, <2>2
<1>9. Unraced'
  <2> SUFFICES ASSUME NEW d \in Call, calls'[d].pc # "idle", ~calls'[d].raced
               PROVE  Fits(calls[d])' /\ ~Overlapped(d)'
    BY DEF Unraced
  <2>1. CASE d = c
    <3>1. Fits(k) /\ ~Overlapped(c)
      BY <1>1, <2>1
    <3>2. Fits(calls[d])'
      BY <1>1, <1>2, <2>1, <3>1 DEF Fits
    <3>3. ~Overlapped(d)'
      BY <1>1, <2>1, <3>1 DEF Overlapped
    <3> QED BY <3>2, <3>3
  <2>2. CASE d # c
    <3>1. /\ calls'[d].pc = calls[d].pc /\ calls'[d].session = calls[d].session
          /\ calls'[d].again = calls[d].again /\ ~calls[d].raced /\ k.pc \notin Races
      BY <1>1, <2>2
    <3>2. Fits(calls[d]) /\ ~Overlapped(d)
      BY <3>1 DEF IInv, Unraced
    <3>3. Fits(calls[d])'
      BY <1>2, <3>1, <3>2 DEF Fits
    <3>4. ~Overlapped(d)'
      BY <1>1, <3>1, <3>2 DEF Overlapped
    <3> QED BY <3>3, <3>4
  <2> QED BY <2>1, <2>2
<1>10. Quiet'
  BY <1>1, <1>2 DEF IInv, Quiet, Still
<1> QED BY <1>3, <1>4, <1>5, <1>6, <1>7, <1>8, <1>9, <1>10 DEF IInv

(* What IInv says of one call.                                             *)
LEMMA CallFacts ==
  ASSUME IInv, NEW c \in Call
  PROVE  /\ calls[c] \in CallState
         /\ calls[c].session \in Session \cup {None} /\ calls[c].tab \in Tab \cup {None}
         /\ (calls[c].pc # "idle" /\ ~calls[c].raced) => Fits(calls[c]) /\ ~Overlapped(c)
         /\ signedOut # None => Still(calls[c]) /\ jar.refresh = None /\ jar.token = None
         /\ jar.refresh \in Session \cup {None} /\ jar.token \in {None, jar.refresh}
         /\ profile \in [Tab -> Session \cup {None}]
         /\ spoilt \subseteq Session /\ signedOut \in Session \cup {None}
  BY DEF IInv, TypeOK, CallState, Unraced, Quiet, Empty

(* A call that moves on with what it has, or with the refresh cookie.      *)
LEMMA MovesStep ==
  ASSUME IInv, NEW c \in Call, NEW pc, NEW s \in {calls[c].session, jar.refresh},
         calls[c].pc \notin {"idle"} \cup Carrying,
         pc \in {"rotate", "revoking"} \cup Sent,
         Becomes(c, [calls[c] EXCEPT !.pc = pc, !.session = s]),
         LET k == [calls[c] EXCEPT !.pc = pc, !.session = s]
         IN (Fits(calls[c]) \/ calls[c].raced) => (Fits(k) \/ k.raced),
         pc = "rotate" => s = jar.refresh, pc = "revoking" => calls[c].pc = "logout" /\ s = calls[c].session /\ Live(s),
         UNCHANGED <<sessions, jar, profile, spoilt, signedOut>>
  PROVE  IInv'
<1> DEFINE k == [calls[c] EXCEPT !.pc = pc, !.session = s]
<1>1. calls[c] \in CallState /\ s \in Session \cup {None}
  BY CallFacts
<1>2. /\ k \in CallState /\ k.pc = pc /\ k.session = s /\ k.again = calls[c].again
      /\ k.raced = calls[c].raced
  BY <1>1 DEF CallState, Moving, Leaving, Sent
<1>3. k.pc \notin Carrying /\ k.pc # "idle"
      /\ (k.pc \in {"revoking", "loggedOut"} => k.session # None)
  BY <1>2 DEF Carrying, Sent, Live
<1>4. ~k.raced => Fits(k) /\ ~Overlapped(c)
  BY <1>2, CallFacts
<1>5. signedOut # None => Still(k)
  <2> SUFFICES ASSUME signedOut # None, k.pc \in Races
               PROVE  k.pc \in {"rotate", "logout"} /\ k.session = None
    BY DEF Still
  <2>1. jar.refresh = None /\ \A x \in Session : Live(x) => Login(x) # signedOut
    BY CallFacts DEF IInv, Quiet
  <2>2. k.pc \in {"rotate", "revoking"}
    BY <1>2 DEF Races, Moving, Leaving, Sent
  <2>3. CASE k.pc = "rotate"
    BY <1>2, <2>1, <2>3
  <2>4. k.pc # "revoking"
    <3> SUFFICES ASSUME pc = "revoking" PROVE FALSE
      BY <1>2
    <3>1. calls[c].pc \in Races
      BY DEF Races, Leaving
    <3>2. calls[c].session = None
      BY <3>1, CallFacts DEF Still
    <3> QED BY <3>2 DEF Live
  <2> QED BY <2>2, <2>3, <2>4
<1> HIDE DEF k
<1>6. /\ Becomes(c, k)
      /\ k.session \in {None, jar.refresh, calls[c].session}
  BY <1>2 DEF k
<1>7. spoilt' \subseteq Session /\ profile' \in [Tab -> Session \cup {None}]
  BY CallFacts
<1> QED BY <1>2, <1>3, <1>4, <1>5, <1>6, <1>7, CallStep

LEMMA MeStep ==
  ASSUME IInv, NEW c \in Call, Me(c)
  PROVE  IInv'
<1> DEFINE pc == IF Live(calls[c].session) THEN "shown" ELSE "unauthorized"
           k == [calls[c] EXCEPT !.pc = pc, !.session = calls[c].session]
<1>1. calls[c] \in CallState
  BY CallFacts
<1>2. Becomes(c, k)
  <2>1. k = [calls[c] EXCEPT !.pc = pc]
    BY <1>1 DEF CallState
  <2> QED BY <2>1 DEF Me, Goes
<1>3. /\ calls[c].pc = "me" /\ pc \in {"shown", "unauthorized"}
      /\ k.pc = pc /\ k.session = calls[c].session /\ k.again = calls[c].again
      /\ k.raced = calls[c].raced
  BY <1>1 DEF Me, CallState
<1>4. Fits(calls[c]) => Fits(k)
  <2> HIDE DEF k
  <2>1. CASE Live(calls[c].session)
    BY <1>3, <2>1 DEF Fits, Carrying, Live
  <2>2. CASE ~Live(calls[c].session)
    BY <1>3, <2>2 DEF Fits, Carrying
  <2> QED BY <2>1, <2>2
<1> HIDE DEF pc
<1> QED BY <1>2, <1>3, <1>4, MovesStep DEF Me, Carrying, Sent

LEMMA RefuseStep ==
  ASSUME IInv, NEW c \in Call, Refuse(c)
  PROVE  IInv'
<1> DEFINE k == [calls[c] EXCEPT !.pc = "refused", !.session = calls[c].session]
<1>1. calls[c] \in CallState
  BY CallFacts
<1>2. Becomes(c, k)
  <2>1. k = [calls[c] EXCEPT !.pc = "refused"]
    BY <1>1 DEF CallState
  <2> QED BY <2>1 DEF Refuse, Goes
<1>3. /\ calls[c].pc = "rotate" /\ ~Live(calls[c].session)
      /\ k.pc = "refused" /\ k.raced = calls[c].raced
  BY <1>1 DEF Refuse, CallState
<1>4. Fits(calls[c]) => Fits(k)
  BY <1>3 DEF Fits, Carrying
<1> QED BY <1>2, <1>3, <1>4, MovesStep DEF Refuse, Carrying, Sent

LEMMA AuthoriseStep ==
  ASSUME IInv, NEW c \in Call, Authorise(c)
  PROVE  IInv'
<1> DEFINE pc == IF Live(calls[c].session) THEN "revoking" ELSE "notLoggedOut"
           k == [calls[c] EXCEPT !.pc = pc, !.session = calls[c].session]
<1>1. calls[c] \in CallState
  BY CallFacts
<1>2. Becomes(c, k)
  <2>1. k = [calls[c] EXCEPT !.pc = pc]
    BY <1>1 DEF CallState
  <2> QED BY <2>1 DEF Authorise, Goes
<1>3. /\ calls[c].pc = "logout" /\ pc \in {"revoking", "notLoggedOut"}
      /\ k.pc = pc /\ k.session = calls[c].session /\ k.raced = calls[c].raced
      /\ pc = "revoking" => Live(calls[c].session)
  BY <1>1 DEF Authorise, CallState
<1>4. Fits(k)
  <2> HIDE DEF k, pc
  <2> QED BY <1>3 DEF Fits, Carrying
<1> HIDE DEF pc
<1> QED BY <1>2, <1>3, <1>4, MovesStep DEF Authorise, Carrying, Sent

LEMMA LogoutFailsStep ==
  ASSUME IInv, NEW c \in Call, LogoutFails(c)
  PROVE  IInv'
<1> DEFINE k == [calls[c] EXCEPT !.pc = "notLoggedOut", !.session = calls[c].session]
<1>1. calls[c] \in CallState
  BY CallFacts
<1>2. Becomes(c, k)
  <2>1. k = [calls[c] EXCEPT !.pc = "notLoggedOut"]
    BY <1>1 DEF CallState
  <2> QED BY <2>1 DEF LogoutFails, Goes
<1>3. calls[c].pc \in {"logout", "revoking"} /\ k.pc = "notLoggedOut"
  BY <1>1 DEF LogoutFails, CallState
<1>4. Fits(k)
  BY <1>3 DEF Fits, Carrying
<1> QED BY <1>2, <1>3, <1>4, MovesStep DEF LogoutFails, Carrying, Sent

LEMMA RequestTokenRefreshStep ==
  ASSUME IInv, NEW c \in Call, RequestTokenRefresh(c)
  PROVE  IInv'
<1> DEFINE k == [calls[c] EXCEPT !.pc = "rotate", !.session = jar.refresh]
<1>1. calls[c] \in CallState /\ jar.refresh \in Session \cup {None}
  BY CallFacts
<1>2. Becomes(c, k) /\ calls[c].pc = "unauthorized"
  BY DEF RequestTokenRefresh
<1>3. k.pc = "rotate" /\ k.session = jar.refresh
  BY <1>1 DEF CallState
<1>4. Fits(k)
  BY <1>3 DEF Fits, Carrying
<1> QED BY <1>2, <1>3, <1>4, MovesStep DEF RequestTokenRefresh, Carrying, Sent

-----------------------------------------------------------------------------
(* Calls that end, and calls that begin.                                   *)

LEMMA EndsStep ==
  ASSUME IInv, NEW c \in Call, Becomes(c, NoCall),
         UNCHANGED <<sessions, jar, signedOut>>,
         profile' \in [Tab -> Session \cup {None}],
         spoilt \subseteq spoilt', spoilt' \subseteq Session,
         calls[c].pc \in Carrying => Login(calls[c].session) \in spoilt'
  PROVE  IInv'
<1>1. Still(NoCall)
  BY NoCallFacts DEF Still
<1>2. NoCall.pc \notin {"revoking", "loggedOut"}
  BY NoCallFacts
<1> QED BY <1>1, <1>2, NoCallFacts, CallStep

LEMMA SetProfileStep ==
  ASSUME IInv, NEW c \in Call, SetProfile(c)
  PROVE  IInv'
<1>1. Login(calls[c].session) \in Session \cup {None}
  BY CallFacts, LoginTyped DEF IInv
<1>2. /\ calls[c].pc = "shown" /\ Becomes(c, NoCall)
      /\ UNCHANGED <<sessions, jar, spoilt, signedOut>>
      /\ profile' = [profile EXCEPT ![calls[c].tab] = Login(calls[c].session)]
  BY DEF SetProfile, Shows
<1>3. profile' \in [Tab -> Session \cup {None}]
  BY <1>1, <1>2, CallFacts
<1>4. spoilt' = spoilt /\ spoilt \subseteq Session /\ calls[c].pc \notin Carrying
  BY <1>2, CallFacts DEF Carrying
<1> QED BY <1>2, <1>3, <1>4, EndsStep

LEMMA DropProfileStep ==
  ASSUME IInv, NEW c \in Call, DropProfile(c)
  PROVE  IInv'
<1>1. /\ calls[c].pc \in {"refused", "unauthorized"} /\ Becomes(c, NoCall)
      /\ UNCHANGED <<sessions, jar, spoilt, signedOut>>
      /\ profile' = [profile EXCEPT ![calls[c].tab] = None]
  BY DEF DropProfile, Shows, RefusalCookies
<1>2. profile' \in [Tab -> Session \cup {None}]
  BY <1>1, CallFacts
<1>3. spoilt' = spoilt /\ spoilt \subseteq Session /\ calls[c].pc \notin Carrying
  BY <1>1, CallFacts DEF Carrying
<1> QED BY <1>1, <1>2, <1>3, EndsStep

LEMMA LostStep ==
  ASSUME IInv, NEW c \in Call, Lost(c)
  PROVE  IInv'
<1>1. /\ Becomes(c, NoCall) /\ UNCHANGED <<sessions, jar, profile, signedOut>>
      /\ spoilt' = IF calls[c].pc \in Carrying THEN spoilt \cup {Login(calls[c].session)}
                   ELSE spoilt
  BY DEF Lost, Carrying
<1>2. calls[c].pc \in Carrying => Login(calls[c].session) \in Session
  <2> SUFFICES ASSUME calls[c].pc \in Carrying PROVE Login(calls[c].session) \in Session
    OBVIOUS
  <2>1. PICK s : s = calls[c].session
    OBVIOUS
  <2>2. s # None /\ (Live(s) \/ Login(s) \in spoilt)
    BY <2>1 DEF IInv, InFlight
  <2>3. s \in Session /\ spoilt \subseteq Session
    BY <2>1, <2>2, CallFacts
  <2>4. Live(s) => Login(s) \in Session
    BY <2>3, LoginFacts DEF IInv
  <2> QED BY <2>1, <2>2, <2>3, <2>4
<1>3. spoilt \subseteq spoilt' /\ spoilt' \subseteq Session /\ profile' \in [Tab -> Session \cup {None}]
  BY <1>1, <1>2, CallFacts
<1> QED BY <1>1, <1>3, EndsStep

(* A call begins idle.                                                     *)
LEMMA BeginsStep ==
  ASSUME IInv, NEW c \in Call, NEW t \in Tab, NEW pc \in {"me", "login", "logout"},
         NEW s \in {None, jar.token}, Begins(c, t, pc, s),
         UNCHANGED <<sessions, jar, profile, spoilt>>,
         signedOut' = IF pc = "login" THEN None ELSE signedOut
  PROVE  IInv'
<1>0. PICK b : b = Overlapped(c)
  OBVIOUS
<1> DEFINE k == [NoCall EXCEPT !.pc = pc, !.tab = t, !.session = s, !.raced = b]
<1>1. s \in {None, jar.refresh} /\ s \in Session \cup {None}
  BY CallFacts
<1>2. b \in BOOLEAN
  BY <1>0 DEF Overlapped
<1>3. Becomes(c, k) /\ calls[c].pc = "idle"
  BY <1>0 DEF Begins
<1>4. k \in CallState /\ k.pc = pc /\ k.session = s /\ k.again = NoCall.again /\ k.raced = b
  BY <1>1, <1>2, NoCallFacts DEF CallState, Moving, Leaving, Sent
<1> HIDE DEF k
<1>5. Fits(k)
  BY <1>1, <1>4, NoCallFacts DEF Fits, Carrying
<1>6. signedOut' # None => Still(k)
  BY <1>4, CallFacts DEF Still, Races, Moving, Leaving
<1>7. k.pc \notin Carrying \cup {"revoking", "loggedOut"} /\ calls[c].pc \notin Carrying
  BY <1>3, <1>4 DEF Carrying
<1>8. spoilt' \subseteq Session /\ profile' \in [Tab -> Session \cup {None}]
  BY CallFacts
<1> QED BY <1>0, <1>1, <1>3, <1>4, <1>5, <1>6, <1>7, <1>8, CallStep

LEMMA BeginStep ==
  ASSUME IInv, NEW c \in Call, NEW t \in Tab,
         RefreshProfile(c, t) \/ HandleLogin(c, t) \/ SignOut(c, t)
  PROVE  IInv'
<1>1. CASE RefreshProfile(c, t)
  BY <1>1, BeginsStep DEF RefreshProfile
<1>2. CASE HandleLogin(c, t)
  BY <1>2, BeginsStep DEF HandleLogin
<1>3. CASE SignOut(c, t)
  BY <1>3, BeginsStep DEF SignOut
<1> QED BY <1>1, <1>2, <1>3

-----------------------------------------------------------------------------
(* Answers that set or clear the cookies.                                  *)

(* While a call moves or ends a session, all others are raced.             *)
LEMMA OthersRaced ==
  ASSUME IInv, NEW c \in Call, calls[c].pc \in Races, NEW d \in Call, d # c,
         calls[d].pc # "idle"
  PROVE  calls[d].raced
  BY DEF IInv, Unraced, Overlapped

(* Accept, by the call whose answer carried the session.                   *)
LEMMA AcceptStep ==
  ASSUME IInv, NEW c \in Call, calls[c].pc \in Carrying, Accept(calls[c].session),
         NEW k \in CallState, Becomes(c, k), k.pc = "me", k.session = calls[c].session,
         k.raced = calls[c].raced, UNCHANGED <<sessions, profile, signedOut>>
  PROVE  IInv'
<1> DEFINE s == calls[c].session
<1>0. s # None /\ jar.refresh # s /\ (Live(s) \/ Login(s) \in spoilt)
      /\ \A d \in Call \ {c} : calls[d].session # s
  BY DEF IInv, InFlight
<1>1. s \in Session /\ spoilt \subseteq Session
  BY <1>0, CallFacts
<1>2. /\ jar' = [token |-> s, refresh |-> s] /\ jar'.refresh = s /\ jar'.token = s
      /\ spoilt' = spoilt \cup ({Login(jar.refresh)} \ {None, Login(s)})
  BY DEF Accept, AuthCookies
<1>3. /\ calls' \in [Call -> CallState] /\ calls'[c] = k
      /\ \A d \in Call : d # c =>
           /\ calls'[d].pc = calls[d].pc /\ calls'[d].session = calls[d].session
           /\ calls'[d].again = calls[d].again
           /\ ~calls'[d].raced => ~calls[d].raced /\ k.pc \notin Races
  BY BecomesFacts DEF IInv
<1>4. \A x : (Live(x)' <=> Live(x)) /\ Login(x)' = Login(x)
  BY SameRows
<1>5. k.session = s /\ calls[c].pc \in Races /\ k.pc \notin Races /\ k.pc \notin Carrying
  BY DEF Carrying, Races, Moving, Leaving
<1> HIDE DEF s
<1>6. TypeOK'
  <2>1. Login(jar.refresh) \in Session \cup {None}
    BY CallFacts, LoginTyped DEF IInv
  <2>2. spoilt' \subseteq Session
    BY <1>1, <1>2, <2>1
  <2> QED BY <1>1, <1>2, <1>3, <2>2 DEF IInv, TypeOK
<1>7. NewUnused'
  <2>1. ASSUME NEW x \in Session, sessions[x].status = "new", NEW d \in Call
        PROVE  calls'[d].session # x /\ s # x
    <3>1. calls[d].session # x /\ calls[c].session # x
      BY <2>1 DEF IInv, NewUnused
    <3> QED BY <1>3, <1>5, <3>1 DEF s
  <2>2. ASSUME NEW x \in Session, sessions[x].status = "new" PROVE s # x
    BY <2>2, <2>1
  <2> QED BY <1>2, <2>1, <2>2 DEF IInv, NewUnused
<1>8. LoginKnown' /\ Sole'
  BY <1>4 DEF IInv, LoginKnown, Sole
<1>9. InFlight'
  <2> SUFFICES ASSUME NEW d \in Call, calls'[d].pc \in Carrying
               PROVE  /\ calls'[d].session # None /\ jar'.refresh # calls'[d].session
                      /\ \A e \in Call \ {d} : calls'[e].session # calls'[d].session
                      /\ Live(calls'[d].session) \/ Login(calls'[d].session) \in spoilt'
    BY <1>4 DEF InFlight
  <2>1. d # c /\ calls[d].pc \in Carrying /\ calls'[d].session = calls[d].session
    BY <1>3, <1>5
  <2>2. /\ calls[d].session # None
        /\ \A e \in Call \ {d} : calls[e].session # calls[d].session
        /\ Live(calls[d].session) \/ Login(calls[d].session) \in spoilt
    BY <2>1 DEF IInv, InFlight
  <2>3. \A e \in Call \ {d} : calls'[e].session # calls[d].session
    BY <1>3, <1>5, <2>1, <2>2 DEF s
  <2>4. calls[d].session # s
    BY <1>0, <2>1
  <2> QED BY <1>2, <2>1, <2>2, <2>3, <2>4
<1>10. Named'
  BY <1>3 DEF IInv, Named
<1>11. SessionKept'
  <2> SUFFICES ASSUME NEW l \in Session, sessions[l].login = l, l \notin spoilt'
               PROVE  \E x \in Session :
                        /\ Live(x) /\ Login(x) = l
                        /\ \/ jar'.refresh = x
                           \/ \E d \in Call : calls'[d].pc \in Carrying /\ calls'[d].session = x
    BY <1>4 DEF SessionKept, Carrying
  <2>1. PICK x \in Session :
          /\ Live(x) /\ Login(x) = l
          /\ \/ jar.refresh = x
             \/ \E d \in Call : calls[d].pc \in Carrying /\ calls[d].session = x
    BY <1>2 DEF IInv, SessionKept, Carrying
  <2>2. CASE Login(s) = l
    <3>1. Live(s)
      BY <1>0, <1>2, <2>2
    <3> QED BY <1>1, <1>2, <2>2, <3>1
  <2>3. CASE Login(s) # l
    <3>1. jar.refresh # x
      BY <1>2, <2>1, <2>3, ClientAssumption
    <3>2. PICK d \in Call : calls[d].pc \in Carrying /\ calls[d].session = x
      BY <2>1, <3>1
    <3>3. d # c
      BY <2>1, <2>3, <3>2 DEF s
    <3> QED BY <1>3, <2>1, <3>2, <3>3
  <2> QED BY <2>2, <2>3
<1>12. Unraced'
  <2> SUFFICES ASSUME NEW d \in Call, calls'[d].pc # "idle", ~calls'[d].raced
               PROVE  Fits(calls[d])' /\ ~Overlapped(d)'
    BY DEF Unraced
  <2>1. d = c
    BY <1>3, <1>5, OthersRaced
  <2>2. Fits(calls[c]) /\ ~Overlapped(c)
    BY <1>3, <1>5, <2>1, CallFacts DEF Races, Moving, Leaving
  <2>3. Live(s)
    BY <2>2 DEF Fits, s
  <2>4. Fits(calls[d])'
    BY <1>2, <1>3, <1>4, <1>5, <2>1, <2>3 DEF Fits, Carrying
  <2>5. ~Overlapped(d)'
    BY <1>3, <2>1, <2>2 DEF Overlapped
  <2> QED BY <2>4, <2>5
<1>13. Quiet'
  <2>1. signedOut = None
    BY CallFacts DEF Still, Carrying, Races, Moving
  <2> QED BY <2>1 DEF Quiet
<1> QED BY <1>6, <1>7, <1>8, <1>9, <1>10, <1>11, <1>12, <1>13 DEF IInv

LEMMA LoggedInStep ==
  ASSUME IInv, NEW c \in Call, LoggedIn(c)
  PROVE  IInv'
<1> DEFINE k == [calls[c] EXCEPT !.pc = "me"]
<1>1. calls[c] \in CallState
  BY CallFacts
<1>2. /\ calls[c].pc \in Carrying /\ Accept(calls[c].session) /\ Becomes(c, k)
      /\ UNCHANGED <<sessions, profile, signedOut>>
  BY DEF LoggedIn, Goes, Carrying
<1>3. /\ k \in CallState /\ k.pc = "me" /\ k.session = calls[c].session
      /\ k.raced = calls[c].raced
  BY <1>1 DEF CallState, Sent
<1> HIDE DEF k
<1> QED BY <1>2, <1>3, AcceptStep

LEMMA RefreshedStep ==
  ASSUME IInv, NEW c \in Call, Refreshed(c)
  PROVE  IInv'
<1> DEFINE k == [calls[c] EXCEPT !.pc = "me", !.again = TRUE]
<1>1. calls[c] \in CallState
  BY CallFacts
<1>2. /\ calls[c].pc \in Carrying /\ Accept(calls[c].session) /\ Becomes(c, k)
      /\ UNCHANGED <<sessions, profile, signedOut>>
  BY DEF Refreshed, Again, Carrying
<1>3. /\ k \in CallState /\ k.pc = "me" /\ k.session = calls[c].session
      /\ k.raced = calls[c].raced
  BY <1>1 DEF CallState, Sent
<1> HIDE DEF k
<1> QED BY <1>2, <1>3, AcceptStep

(* A sign-out that the server took clears the cookies.                     *)
LEMMA ClearStep ==
  ASSUME IInv, NEW c \in Call, SignedOut(c), calls[c].pc = "loggedOut"
  PROVE  IInv'
<1>1. /\ profile' = [profile EXCEPT ![calls[c].tab] = None]
      /\ jar' = Empty /\ sessions' = sessions /\ Becomes(c, NoCall)
      /\ spoilt' = spoilt \cup ({Login(jar.refresh)} \ {None})
      /\ signedOut' = IF calls[c].raced THEN signedOut ELSE Login(calls[c].session)
  BY DEF SignedOut, Shows, Cleared
<1>2. /\ calls' \in [Call -> CallState] /\ calls'[c] = NoCall
      /\ \A d \in Call : d # c =>
           /\ calls'[d].pc = calls[d].pc /\ calls'[d].session = calls[d].session
           /\ calls'[d].again = calls[d].again
           /\ ~calls'[d].raced => ~calls[d].raced
  BY <1>1, BecomesFacts, NoCallFacts DEF IInv
<1>3. \A x : (Live(x)' <=> Live(x)) /\ Login(x)' = Login(x)
  BY <1>1, SameRows
<1>4. jar'.token = None /\ jar'.refresh = None
  BY <1>1 DEF Empty
<1>5. calls[c].pc \in Races /\ calls[c].pc \notin Carrying
  BY DEF Races, Leaving, Carrying
<1>6. TypeOK'
  <2>1. Login(jar.refresh) \in Session \cup {None} /\ Login(calls[c].session) \in Session \cup {None}
    BY CallFacts, LoginTyped DEF IInv
  <2>2. profile' \in [Tab -> Session \cup {None}]
    BY <1>1, CallFacts
  <2>3. spoilt' \subseteq Session /\ signedOut' \in Session \cup {None}
    BY <1>1, <2>1, CallFacts
  <2>4. jar' \in [token : Session \cup {None}, refresh : Session \cup {None}]
    BY <1>1 DEF Empty
  <2> QED BY <1>1, <1>2, <1>4, <2>2, <2>3, <2>4 DEF IInv, TypeOK
<1>7. NewUnused'
  BY <1>1, <1>2, <1>4, NoCallFacts, ClientAssumption DEF IInv, NewUnused
<1>8. LoginKnown' /\ Sole'
  BY <1>1, <1>3 DEF IInv, LoginKnown, Sole
<1>9. InFlight'
  <2> SUFFICES ASSUME NEW d \in Call, calls'[d].pc \in Carrying
               PROVE  /\ calls'[d].session # None /\ jar'.refresh # calls'[d].session
                      /\ \A e \in Call \ {d} : calls'[e].session # calls'[d].session
                      /\ Live(calls'[d].session) \/ Login(calls'[d].session) \in spoilt'
    BY <1>3 DEF InFlight
  <2>1. d # c /\ calls[d].pc \in Carrying /\ calls'[d].session = calls[d].session
    BY <1>2, NoCallFacts
  <2>2. /\ calls[d].session # None
        /\ \A e \in Call \ {d} : calls[e].session # calls[d].session
        /\ Live(calls[d].session) \/ Login(calls[d].session) \in spoilt
    BY <2>1 DEF IInv, InFlight
  <2>3. \A e \in Call \ {d} : calls'[e].session # calls[d].session
    BY <1>2, <2>1, <2>2, NoCallFacts
  <2> QED BY <1>1, <1>4, <2>1, <2>2, <2>3
<1>10. Named'
  BY <1>2, NoCallFacts DEF IInv, Named
<1>11. SessionKept'
  <2> SUFFICES ASSUME NEW l \in Session, sessions[l].login = l, l \notin spoilt'
               PROVE  \E x \in Session :
                        /\ Live(x) /\ Login(x) = l
                        /\ \/ jar'.refresh = x
                           \/ \E d \in Call : calls'[d].pc \in Carrying /\ calls'[d].session = x
    BY <1>1, <1>3 DEF SessionKept, Carrying
  <2>1. PICK x \in Session :
          /\ Live(x) /\ Login(x) = l
          /\ \/ jar.refresh = x
             \/ \E d \in Call : calls[d].pc \in Carrying /\ calls[d].session = x
    BY <1>1 DEF IInv, SessionKept, Carrying
  <2>2. jar.refresh # x
    BY <1>1, <2>1, ClientAssumption
  <2>3. PICK d \in Call : calls[d].pc \in Carrying /\ calls[d].session = x
    BY <2>1, <2>2
  <2>4. d # c
    BY <1>5, <2>3
  <2> QED BY <1>2, <2>1, <2>3, <2>4
<1>12. Unraced'
  BY <1>2, <1>5, OthersRaced, NoCallFacts DEF Unraced
<1>13. Quiet'
  <2>1. calls[c].raced => signedOut = None
    BY CallFacts DEF Still, Races, Leaving
  <2>2. CASE calls[c].raced
    BY <1>1, <2>1, <2>2 DEF Quiet
  <2>3. CASE ~calls[c].raced
    <3>1. Fits(calls[c]) /\ ~Overlapped(c)
      BY <2>3, CallFacts
    <3>2. \A x \in Session : Live(x) => Login(x) # Login(calls[c].session)
      BY <3>1 DEF Fits
    <3>3. \A d \in Call : calls'[d].pc \notin Races
      BY <1>2, <3>1, NoCallFacts DEF Overlapped
    <3>4. \A x \in Session : Live(x)' => Login(x)' # signedOut'
      BY <1>1, <1>3, <2>3, <3>2
    <3> QED BY <1>1, <3>3, <3>4 DEF Quiet, Still
  <2> QED BY <2>2, <2>3
<1> QED BY <1>6, <1>7, <1>8, <1>9, <1>10, <1>11, <1>12, <1>13 DEF IInv

LEMMA SignedOutStep ==
  ASSUME IInv, NEW c \in Call, SignedOut(c)
  PROVE  IInv'
<1>1. calls[c].pc \in {"loggedOut", "notLoggedOut"}
  BY DEF SignedOut
<1>2. CASE calls[c].pc = "notLoggedOut"
  <2>1. /\ Becomes(c, NoCall) /\ UNCHANGED <<sessions, jar, spoilt, signedOut>>
        /\ profile' = [profile EXCEPT ![calls[c].tab] = None]
    BY <1>2 DEF SignedOut, Shows
  <2>2. profile' \in [Tab -> Session \cup {None}]
    BY <2>1, CallFacts
  <2>3. spoilt' = spoilt /\ spoilt \subseteq Session /\ calls[c].pc \notin Carrying
    BY <1>2, <2>1, CallFacts DEF Carrying
  <2> QED BY <2>1, <2>2, <2>3, EndsStep
<1> QED BY <1>1, <1>2, ClearStep

(* The token's cookie ends before the refresh token's.                     *)
LEMMA ExpireTokenStep ==
  ASSUME IInv, ExpireToken
  PROVE  IInv'
<1>1. /\ jar' = [jar EXCEPT !.token = None]
      /\ UNCHANGED <<sessions, profile, calls, spoilt, signedOut>>
      /\ jar.token # None
      /\ jar \in [token : Session \cup {None}, refresh : Session \cup {None}]
  BY DEF ExpireToken, IInv, TypeOK
<1>2. jar'.refresh = jar.refresh /\ jar'.token = None
      /\ jar' \in [token : Session \cup {None}, refresh : Session \cup {None}]
  BY <1>1
<1>3. \A x : (Live(x)' <=> Live(x)) /\ Login(x)' = Login(x)
  BY <1>1, SameRows
<1>4. TypeOK'
  BY <1>1, <1>2 DEF IInv, TypeOK
<1>5. NewUnused' /\ LoginKnown' /\ Sole'
  BY <1>1, <1>2, <1>3 DEF IInv, NewUnused, LoginKnown, Sole
<1>6. InFlight' /\ Named' /\ SessionKept'
  <2>1. InFlight'
    BY <1>1, <1>2, <1>3 DEF IInv, InFlight
  <2>2. Named'
    BY <1>1 DEF IInv, Named
  <2>3. SessionKept'
    BY <1>1, <1>2, <1>3 DEF IInv, SessionKept
  <2> QED BY <2>1, <2>2, <2>3
<1>7. Unraced'
  <2> SUFFICES ASSUME NEW c \in Call, calls[c].pc # "idle", ~calls[c].raced
               PROVE  Fits(calls[c])' /\ ~Overlapped(c)'
    BY <1>1 DEF Unraced
  <2>1. Fits(calls[c]) /\ ~Overlapped(c)
    BY CallFacts
  <2>2. Fits(calls[c])'
    BY <1>1, <1>2, <1>3, <2>1 DEF Fits
  <2>3. ~Overlapped(c)'
    BY <1>1, <2>1 DEF Overlapped
  <2> QED BY <2>2, <2>3
<1>8. Quiet'
  <2>1. signedOut = None
    BY <1>1 DEF IInv, Quiet, Empty
  <2> QED BY <1>1, <2>1 DEF Quiet
<1> QED BY <1>4, <1>5, <1>6, <1>7, <1>8 DEF IInv

-----------------------------------------------------------------------------
(* Sessions that begin.                                                    *)

(* All other calls are raced while one of them moves or ends a session.    *)
LEMMA OnlyOne ==
  ASSUME IInv, NEW c \in Call, calls[c].pc \in Races, NEW k \in CallState, Becomes(c, k),
         (k.pc # "idle" /\ ~k.raced) => (~calls[c].raced /\ Fits(k)')
  PROVE  Unraced'
<1>1. /\ calls'[c] = k
      /\ \A d \in Call : d # c =>
           /\ calls'[d].pc = calls[d].pc
           /\ ~calls'[d].raced => ~calls[d].raced
  BY BecomesFacts DEF IInv
<1> SUFFICES ASSUME NEW d \in Call, calls'[d].pc # "idle", ~calls'[d].raced
             PROVE  Fits(calls[d])' /\ ~Overlapped(d)'
  BY DEF Unraced
<1>2. d = c
  BY <1>1, OthersRaced
<1>3. ~calls[c].raced /\ Fits(k)'
  BY <1>1, <1>2
<1>4. ~Overlapped(c)
  BY <1>3, CallFacts DEF Races, Moving, Leaving
<1>5. ~Overlapped(d)'
  BY <1>1, <1>2, <1>4 DEF Overlapped
<1>6. Fits(calls[d])'
  BY <1>1, <1>2, <1>3 DEF Fits
<1> QED BY <1>5, <1>6

LEMMA SignInStep ==
  ASSUME IInv, NEW c \in Call, NEW s \in Session, SignIn(c, s)
  PROVE  IInv'
<1>0. PICK k : k = [calls[c] EXCEPT !.pc = "loggedIn", !.session = s]
  OBVIOUS
<1> DEFINE row == [status |-> "active", login |-> s]
<1>1. /\ calls[c].pc = "login" /\ sessions[s].status = "new"
      /\ sessions' = [sessions EXCEPT ![s] = row]
      /\ Becomes(c, k) /\ UNCHANGED <<jar, profile, spoilt, signedOut>>
  BY <1>0 DEF SignIn, NewSession
<1>2. calls[c] \in CallState /\ sessions \in [Session -> Row]
  BY CallFacts DEF IInv, TypeOK
<1>3. /\ k \in CallState /\ k.pc = "loggedIn" /\ k.session = s /\ k.raced = calls[c].raced
  BY <1>0, <1>2 DEF CallState, Moving
<1>4. row \in Row /\ row.status = "active" /\ row.login = s
  BY DEF Row
<1> HIDE DEF row
<1>5. /\ sessions' \in [Session -> Row] /\ sessions'[s] = row
      /\ \A x \in Session : x # s => sessions'[x] = sessions[x]
  BY <1>1, <1>2, <1>4
<1>6. /\ sessions[s].login = None /\ jar.refresh # s
      /\ \A x \in Session : sessions[x].login # s
      /\ \A d \in Call : calls[d].session # s
  BY <1>1 DEF IInv, NewUnused
<1>7. /\ Live(s)' /\ Login(s)' = s /\ ~Live(s)
      /\ \A x : x # s => (x \in Session \cup {None} => ((Live(x)' <=> Live(x)) /\ Login(x)' = Login(x)))
  BY <1>1, <1>4, <1>5, ClientAssumption DEF Live, Login
<1>8. /\ calls' \in [Call -> CallState] /\ calls'[c] = k
      /\ \A d \in Call : d # c =>
           calls'[d].pc = calls[d].pc /\ calls'[d].session = calls[d].session
  BY <1>1, <1>3, BecomesFacts DEF IInv
<1>9. TypeOK'
  BY <1>1, <1>5, <1>8 DEF IInv, TypeOK
<1>10. NewUnused'
  <2> SUFFICES ASSUME NEW x \in Session, sessions'[x].status = "new"
               PROVE  /\ sessions'[x].login = None /\ jar.refresh # x
                      /\ \A y \in Session : sessions'[y].login # x
                      /\ \A d \in Call : calls'[d].session # x
    BY <1>1 DEF NewUnused
  <2>1. x # s /\ sessions'[x] = sessions[x]
    BY <1>4, <1>5
  <2>2. /\ sessions[x].login = None /\ jar.refresh # x
        /\ \A y \in Session : sessions[y].login # x
        /\ \A d \in Call : calls[d].session # x
    BY <2>1 DEF IInv, NewUnused
  <2> QED BY <1>3, <1>4, <1>5, <1>8, <2>1, <2>2
<1>11. LoginKnown'
  BY <1>4, <1>5 DEF IInv, LoginKnown
<1>12. Sole'
  <2>1. \A x \in Session : Live(x) => Login(x) # s
    BY <1>6, ClientAssumption DEF Login
  <2> QED BY <1>7, <2>1 DEF IInv, Sole
<1>13. InFlight'
  <2> SUFFICES ASSUME NEW d \in Call, NEW x, x = calls'[d].session, calls'[d].pc \in Carrying
               PROVE  /\ x # None /\ jar.refresh # x
                      /\ \A e \in Call \ {d} : calls'[e].session # x
                      /\ Live(x)' \/ Login(x)' \in spoilt
    BY <1>1 DEF InFlight
  <2>1. CASE d = c
    BY <1>3, <1>6, <1>7, <1>8, <2>1, ClientAssumption
  <2>2. CASE d # c
    <3>1. calls[d].pc \in Carrying /\ x = calls[d].session
      BY <1>8, <2>2
    <3>2. /\ x # None /\ jar.refresh # x
          /\ \A e \in Call \ {d} : calls[e].session # x
          /\ Live(x) \/ Login(x) \in spoilt
      BY <3>1 DEF IInv, InFlight
    <3>3. x # s /\ x \in Session \cup {None}
      BY <1>6, <3>1, CallFacts
    <3>4. \A e \in Call \ {d} : calls'[e].session # x
      BY <1>3, <1>8, <3>2, <3>3
    <3>5. Live(x)' \/ Login(x)' \in spoilt
      BY <1>7, <3>2, <3>3
    <3> QED BY <3>2, <3>4, <3>5
  <2> QED BY <2>1, <2>2
<1>14. Named'
  BY <1>3, <1>8 DEF IInv, Named
<1>15. SessionKept'
  <2> SUFFICES ASSUME NEW l \in Session, sessions'[l].login = l, l \notin spoilt
               PROVE  \E x \in Session :
                        /\ Live(x)' /\ Login(x)' = l
                        /\ \/ jar.refresh = x
                           \/ \E d \in Call : calls'[d].pc \in Carrying /\ calls'[d].session = x
    BY <1>1 DEF SessionKept, Carrying
  <2>1. CASE l = s
    BY <1>3, <1>7, <1>8, <2>1 DEF Carrying
  <2>2. CASE l # s
    <3>1. sessions[l].login = l
      BY <1>5, <2>2
    <3>2. PICK x \in Session :
            /\ Live(x) /\ Login(x) = l
            /\ \/ jar.refresh = x
               \/ \E d \in Call : calls[d].pc \in Carrying /\ calls[d].session = x
      BY <3>1 DEF IInv, SessionKept, Carrying
    <3>3. x # s /\ Live(x)' /\ Login(x)' = l
      BY <1>7, <3>2
    <3>4. ASSUME NEW d \in Call, calls[d].pc \in Carrying, calls[d].session = x
          PROVE  calls'[d].pc \in Carrying /\ calls'[d].session = x
      BY <1>1, <1>8, <3>4 DEF Carrying
    <3> QED BY <3>2, <3>3, <3>4
  <2> QED BY <2>1, <2>2
<1>16. Unraced'
  <2>1. Fits(k)'
    <3>1. k.pc = "loggedIn" /\ Live(k.session)'
      BY <1>3, <1>7
    <3> QED BY <3>1 DEF Fits, Carrying
  <2>2. calls[c].pc \in Races
    BY <1>1 DEF Races, Moving
  <2> QED BY <1>1, <1>3, <2>1, <2>2, OnlyOne
<1>17. Quiet'
  <2>1. signedOut = None
    BY <1>1, CallFacts DEF Still, Races, Moving
  <2> QED BY <1>1, <2>1 DEF Quiet
<1> QED BY <1>9, <1>10, <1>11, <1>12, <1>13, <1>14, <1>15, <1>16, <1>17 DEF IInv

(* A rotation, whose answer carries the successor or is an error.          *)
LEMMA SucceedStep ==
  ASSUME IInv, NEW c \in Call, NEW s \in Session, calls[c].pc = "rotate", Rotated(c, s),
         NEW k \in CallState, Becomes(c, k), UNCHANGED <<jar, profile, signedOut>>,
         \/ k.pc = "rotated" /\ k.session = s /\ k.raced = calls[c].raced /\ spoilt' = spoilt
         \/ /\ k.pc = "refused" /\ k.session = calls[c].session /\ k.raced
            /\ spoilt' = spoilt \cup {Login(calls[c].session)}
  PROVE  IInv'
<1>0. PICK old : old = calls[c].session
  OBVIOUS
<1>1. /\ Live(old) /\ old \in Session /\ sessions[s].status = "new"
      /\ old # s /\ sessions[old].login \in Session /\ Login(old) = sessions[old].login
  <2>1. Live(old) /\ sessions[s].status = "new"
    BY <1>0 DEF Rotated
  <2>2. old \in Session
    BY <1>0, <2>1, CallFacts DEF Live
  <2>3. old # s
    BY <2>1 DEF Live
  <2> QED BY <2>1, <2>2, <2>3, LoginFacts DEF IInv
<1>2. PICK l \in Session : l = Login(old) /\ l = sessions[old].login
  BY <1>1
<1>3. PICK row : row = [status |-> "active", login |-> l]
  OBVIOUS
<1>4. row \in Row /\ row.status = "active" /\ row.login = l
  BY <1>3 DEF Row
<1>5. /\ sessions' = [sessions EXCEPT ![old].status = "ended", ![s] = row]
      /\ sessions \in [Session -> Row]
  BY <1>0, <1>2, <1>3 DEF Rotated, IInv, TypeOK
<1>6. /\ sessions' \in [Session -> Row] /\ sessions'[s] = row
      /\ sessions'[old].status = "ended" /\ sessions'[old].login = l
      /\ \A x \in Session : x # s /\ x # old => sessions'[x] = sessions[x]
  <2>1. sessions[old] \in Row
    BY <1>1, <1>5
  <2>2. PICK dead : dead = [sessions[old] EXCEPT !.status = "ended"]
    OBVIOUS
  <2>3. dead \in Row /\ dead.status = "ended" /\ dead.login = l
    BY <1>2, <2>1, <2>2 DEF Row
  <2>4. sessions' = [sessions EXCEPT ![old] = dead, ![s] = row]
    BY <1>5, <2>2
  <2> QED BY <1>1, <1>4, <1>5, <2>3, <2>4
<1>7. /\ sessions[s].login = None /\ jar.refresh # s
      /\ \A x \in Session : sessions[x].login # s
      /\ \A d \in Call : calls[d].session # s
  BY <1>1 DEF IInv, NewUnused
<1>8. /\ Live(s)' /\ Login(s)' = l /\ ~Live(s)
      /\ ~Live(old)' /\ Login(old)' = l
      /\ \A x \in Session \cup {None} : x # s /\ x # old =>
           (Live(x)' <=> Live(x)) /\ Login(x)' = Login(x)
  BY <1>1, <1>4, <1>6, ClientAssumption DEF Live, Login
<1>9. /\ calls' \in [Call -> CallState] /\ calls'[c] = k
      /\ \A d \in Call : d # c =>
           calls'[d].pc = calls[d].pc /\ calls'[d].session = calls[d].session
  BY BecomesFacts DEF IInv
<1>10. k.session \in {s, old} /\ k.pc \in {"rotated", "refused"} /\ spoilt \subseteq spoilt'
  BY <1>0
<1>11. TypeOK'
  <2>1. spoilt' \subseteq Session
    BY <1>0, <1>2, CallFacts
  <2> QED BY <1>6, <1>9, <2>1 DEF IInv, TypeOK
<1>12. NewUnused'
  <2> SUFFICES ASSUME NEW x \in Session, sessions'[x].status = "new"
               PROVE  /\ sessions'[x].login = None /\ jar.refresh # x
                      /\ \A y \in Session : sessions'[y].login # x
                      /\ \A d \in Call : calls'[d].session # x
    BY DEF NewUnused
  <2>1. x # s /\ x # old /\ sessions'[x] = sessions[x]
    BY <1>4, <1>6
  <2>2. /\ sessions[x].login = None /\ jar.refresh # x
        /\ \A y \in Session : sessions[y].login # x
        /\ \A d \in Call : calls[d].session # x
    BY <2>1 DEF IInv, NewUnused
  <2>3. ASSUME NEW y \in Session PROVE sessions'[y].login # x
    BY <1>1, <1>2, <1>4, <1>6, <2>2
  <2>4. ASSUME NEW d \in Call PROVE calls'[d].session # x
    BY <1>9, <1>10, <2>1, <2>2
  <2> QED BY <2>1, <2>2, <2>3, <2>4
<1>13. LoginKnown'
  BY <1>4, <1>6 DEF IInv, LoginKnown
<1>14. Sole'
  <2> SUFFICES ASSUME NEW x \in Session, NEW y \in Session, Live(x)', Live(y)',
                      Login(x)' = Login(y)'
               PROVE  x = y
    BY DEF Sole
  <2>1. x # old /\ y # old
    BY <1>8
  <2>2. ASSUME NEW z \in Session, z # s, z # old, Live(z) PROVE Login(z) # l
    BY <1>1, <1>2, <2>2 DEF IInv, Sole
  <2>3. CASE x # s /\ y # s
    BY <1>8, <2>1, <2>3 DEF IInv, Sole
  <2> QED BY <1>8, <2>1, <2>2, <2>3
<1>15. InFlight'
  <2> SUFFICES ASSUME NEW d \in Call, NEW x, x = calls'[d].session, calls'[d].pc \in Carrying
               PROVE  /\ x # None /\ jar.refresh # x
                      /\ \A e \in Call \ {d} : calls'[e].session # x
                      /\ Live(x)' \/ Login(x)' \in spoilt'
    BY DEF InFlight
  <2>1. CASE d = c
    <3>1. x = s
      BY <1>9, <2>1 DEF Carrying
    <3> QED BY <1>7, <1>8, <1>9, <2>1, <3>1, ClientAssumption
  <2>2. CASE d # c
    <3>1. calls[d].pc \in Carrying /\ x = calls[d].session
      BY <1>9, <2>2
    <3>2. /\ x # None /\ jar.refresh # x
          /\ \A e \in Call \ {d} : calls[e].session # x
          /\ Live(x) \/ Login(x) \in spoilt
      BY <3>1 DEF IInv, InFlight
    <3>3. x # s /\ x # old /\ x \in Session \cup {None}
      BY <1>0, <1>7, <2>2, <3>1, <3>2, CallFacts
    <3>4. \A e \in Call \ {d} : calls'[e].session # x
      BY <1>9, <1>10, <3>2, <3>3
    <3>5. Live(x)' \/ Login(x)' \in spoilt'
      BY <1>8, <1>10, <3>2, <3>3
    <3> QED BY <3>2, <3>4, <3>5
  <2> QED BY <2>1, <2>2
<1>16. Named'
  BY <1>9, <1>10 DEF IInv, Named
<1>17. SessionKept'
  <2> SUFFICES ASSUME NEW m \in Session, sessions'[m].login = m, m \notin spoilt'
               PROVE  \E x \in Session :
                        /\ Live(x)' /\ Login(x)' = m
                        /\ \/ jar.refresh = x
                           \/ \E d \in Call : calls'[d].pc \in Carrying /\ calls'[d].session = x
    BY DEF SessionKept, Carrying
  <2>1. CASE m = l
    <3>1. k.pc = "rotated" /\ k.session = s
      BY <1>0, <1>2, <2>1
    <3> QED BY <1>8, <1>9, <2>1, <3>1 DEF Carrying
  <2>2. CASE m # l
    <3>1. sessions[m].login = m /\ m \notin spoilt
      BY <1>4, <1>6, <1>10, <2>2
    <3>2. PICK x \in Session :
            /\ Live(x) /\ Login(x) = m
            /\ \/ jar.refresh = x
               \/ \E d \in Call : calls[d].pc \in Carrying /\ calls[d].session = x
      BY <3>1 DEF IInv, SessionKept, Carrying
    <3>3. x # s /\ x # old /\ Live(x)' /\ Login(x)' = m
      BY <1>2, <1>8, <2>2, <3>2
    <3>4. ASSUME NEW d \in Call, calls[d].pc \in Carrying, calls[d].session = x
          PROVE  calls'[d].pc \in Carrying /\ calls'[d].session = x
      BY <1>9, <3>4 DEF Carrying
    <3> QED BY <3>2, <3>3, <3>4
  <2> QED BY <2>1, <2>2
<1>18. Unraced'
  <2>1. k.pc = "rotated" => Fits(k)'
    <3>1. SUFFICES ASSUME k.pc = "rotated" PROVE Fits(k)'
      OBVIOUS
    <3>2. Live(k.session)'
      BY <1>8, <3>1
    <3> QED BY <3>1, <3>2 DEF Fits, Carrying
  <2>2. calls[c].pc \in Races
    BY DEF Races, Moving
  <2> QED BY <2>1, <2>2, OnlyOne
<1>19. Quiet'
  <2>1. signedOut = None
    BY <1>0, <1>1, CallFacts, ClientAssumption DEF Still, Races, Moving
  <2> QED BY <2>1 DEF Quiet
<1> QED BY <1>11, <1>12, <1>13, <1>14, <1>15, <1>16, <1>17, <1>18, <1>19 DEF IInv

LEMMA RotateStep ==
  ASSUME IInv, NEW c \in Call, NEW s \in Session, Rotate(c, s)
  PROVE  IInv'
<1>1. PICK k : k = [calls[c] EXCEPT !.pc = "rotated", !.session = s]
  OBVIOUS
<1>2. calls[c] \in CallState
  BY CallFacts
<1>3. k \in CallState /\ k.pc = "rotated" /\ k.session = s /\ k.raced = calls[c].raced
  BY <1>1, <1>2 DEF CallState, Moving
<1>4. /\ calls[c].pc = "rotate" /\ Rotated(c, s) /\ Becomes(c, k)
      /\ UNCHANGED <<jar, profile, spoilt, signedOut>>
  BY <1>1 DEF Rotate
<1> QED BY <1>3, <1>4, SucceedStep

LEMMA RotateFailsStep ==
  ASSUME IInv, NEW c \in Call, RotateFails(c)
  PROVE  IInv'
<1>1. PICK k : k = [calls[c] EXCEPT !.pc = "refused", !.raced = TRUE]
  OBVIOUS
<1>2. calls[c] \in CallState /\ profile \in [Tab -> Session \cup {None}] /\ spoilt \subseteq Session
  BY CallFacts
<1>3. k \in CallState /\ k.pc = "refused" /\ k.session = calls[c].session /\ k.raced
  BY <1>1, <1>2 DEF CallState, Sent
<1>4. /\ calls[c].pc = "rotate" /\ Becomes(c, k) /\ UNCHANGED <<jar, profile, signedOut>>
  BY <1>1 DEF RotateFails
<1>5. CASE UNCHANGED <<sessions, spoilt>>
  <2>1. Still(k)
    BY <1>3 DEF Still, Races, Moving, Leaving
  <2>2. k.pc \notin Carrying \cup {"revoking", "loggedOut"} /\ calls[c].pc \notin Carrying
    BY <1>3, <1>4 DEF Carrying
  <2> QED BY <1>2, <1>3, <1>4, <1>5, <2>1, <2>2, CallStep
<1>6. CASE /\ \E s \in Session : Rotated(c, s)
           /\ spoilt' = spoilt \cup {Login(calls[c].session)}
  BY <1>3, <1>4, <1>6, SucceedStep
<1> QED BY <1>5, <1>6 DEF RotateFails

-----------------------------------------------------------------------------
(* Sessions that end, which spoils their logins.                           *)

LEMMA EndedStep ==
  ASSUME IInv, NEW s \in Session, sessions[s].status # "new",
         sessions' = [sessions EXCEPT ![s].status = "ended"],
         spoilt' = spoilt \cup {Login(s)}, UNCHANGED <<jar, profile, signedOut>>,
         calls' \in [Call -> CallState],
         \A d \in Call : calls'[d].session = calls[d].session,
         \A d \in Call : calls'[d].pc \in Carrying <=> calls[d].pc \in Carrying,
         \A d \in Call : calls'[d].pc \in {"revoking", "loggedOut"} =>
                           calls[d].pc \in {"revoking", "loggedOut"},
         signedOut # None => \A d \in Call : Still(calls[d])',
         Unraced'
  PROVE  IInv'
<1>1. sessions \in [Session -> Row] /\ sessions[s].login \in Session
  BY DEF IInv, TypeOK, LoginKnown
<1>2. PICK row : row = [sessions[s] EXCEPT !.status = "ended"]
  OBVIOUS
<1>3. row \in Row /\ row.status = "ended" /\ row.login = sessions[s].login
  BY <1>1, <1>2 DEF Row
<1>4. /\ sessions' \in [Session -> Row] /\ sessions'[s] = row
      /\ \A x \in Session : x # s => sessions'[x] = sessions[x]
  BY <1>1, <1>2, <1>3
<1>5. /\ ~Live(s)' /\ Login(s) = sessions[s].login
      /\ \A x \in Session \cup {None} : /\ Live(x)' <=> (Live(x) /\ x # s)
                                        /\ Login(x)' = Login(x)
  BY <1>3, <1>4, ClientAssumption DEF Live, Login
<1>6. TypeOK'
  BY <1>1, <1>4, <1>5 DEF IInv, TypeOK
<1>7. NewUnused'
  <2> SUFFICES ASSUME NEW x \in Session, sessions'[x].status = "new"
               PROVE  /\ sessions'[x].login = None /\ jar.refresh # x
                      /\ \A y \in Session : sessions'[y].login # x
                      /\ \A d \in Call : calls'[d].session # x
    BY DEF NewUnused
  <2>1. x # s /\ sessions'[x] = sessions[x]
    BY <1>3, <1>4
  <2>2. /\ sessions[x].login = None /\ jar.refresh # x
        /\ \A y \in Session : sessions[y].login # x
        /\ \A d \in Call : calls[d].session # x
    BY <2>1 DEF IInv, NewUnused
  <2> QED BY <1>3, <1>4, <2>1, <2>2
<1>8. LoginKnown'
  BY <1>1, <1>3, <1>4 DEF IInv, LoginKnown
<1>9. Sole'
  BY <1>5 DEF IInv, Sole
<1>10. InFlight'
  <2> SUFFICES ASSUME NEW d \in Call, NEW x, x = calls'[d].session, calls'[d].pc \in Carrying
               PROVE  /\ x # None /\ jar.refresh # x
                      /\ \A e \in Call \ {d} : calls'[e].session # x
                      /\ Live(x)' \/ Login(x)' \in spoilt'
    BY DEF InFlight
  <2>1. calls[d].pc \in Carrying /\ x = calls[d].session
    OBVIOUS
  <2>2. /\ x # None /\ jar.refresh # x
        /\ \A e \in Call \ {d} : calls[e].session # x
        /\ Live(x) \/ Login(x) \in spoilt
    BY <2>1 DEF IInv, InFlight
  <2>3. x \in Session \cup {None}
    BY <2>1, CallFacts
  <2>4. Live(x)' \/ Login(x)' \in spoilt'
    BY <1>5, <2>2, <2>3
  <2> QED BY <2>2, <2>4
<1>11. Named'
  BY DEF IInv, Named
<1>12. SessionKept'
  <2> SUFFICES ASSUME NEW l \in Session, sessions'[l].login = l, l \notin spoilt'
               PROVE  \E x \in Session :
                        /\ Live(x)' /\ Login(x)' = l
                        /\ \/ jar.refresh = x
                           \/ \E d \in Call : calls'[d].pc \in Carrying /\ calls'[d].session = x
    BY DEF SessionKept, Carrying
  <2>1. sessions[l].login = l /\ l \notin spoilt /\ l # Login(s)
    BY <1>3, <1>4
  <2>2. PICK x \in Session :
          /\ Live(x) /\ Login(x) = l
          /\ \/ jar.refresh = x
             \/ \E d \in Call : calls[d].pc \in Carrying /\ calls[d].session = x
    BY <2>1 DEF IInv, SessionKept, Carrying
  <2>3. Live(x)' /\ Login(x)' = l
    BY <1>5, <2>1, <2>2
  <2> QED BY <2>2, <2>3
<1>13. Quiet'
  <2> SUFFICES ASSUME signedOut # None
               PROVE  /\ jar = Empty
                      /\ \A x \in Session : Live(x)' => Login(x)' # signedOut
                      /\ \A d \in Call : Still(calls[d])'
    BY DEF Quiet
  <2>1. jar = Empty /\ \A x \in Session : Live(x) => Login(x) # signedOut
    BY DEF IInv, Quiet
  <2> QED BY <1>5, <2>1
<1> QED BY <1>6, <1>7, <1>8, <1>9, <1>10, <1>11, <1>12, <1>13 DEF IInv

LEMMA RevokeSessionStep ==
  ASSUME IInv, NEW c \in Call, RevokeSession(c)
  PROVE  IInv'
<1>1. PICK k : k = [calls[c] EXCEPT !.pc = "loggedOut"]
  OBVIOUS
<1>2. PICK s : s = calls[c].session
  OBVIOUS
<1>3. calls[c] \in CallState
  BY CallFacts
<1>4. /\ k \in CallState /\ k.pc = "loggedOut" /\ k.session = s /\ k.raced = calls[c].raced
  BY <1>1, <1>2, <1>3 DEF CallState, Leaving
<1>5. /\ calls[c].pc = "revoking" /\ sessions' = [sessions EXCEPT ![s].status = "ended"]
      /\ spoilt' = spoilt \cup {Login(s)} /\ Becomes(c, k)
      /\ UNCHANGED <<jar, profile, signedOut>>
  BY <1>1, <1>2 DEF RevokeSession, Goes
<1>6. s \in Session /\ sessions[s].status # "new"
  <2>1. s # None
    BY <1>2, <1>5 DEF IInv, Named
  <2>2. s \in Session
    BY <1>2, <2>1, CallFacts
  <2> QED BY <1>2, <2>2 DEF IInv, NewUnused
<1>7. /\ calls' \in [Call -> CallState] /\ calls'[c] = k
      /\ \A d \in Call : d # c =>
           calls'[d].pc = calls[d].pc /\ calls'[d].session = calls[d].session
  BY <1>4, <1>5, BecomesFacts DEF IInv
<1>8. signedOut = None
  BY <1>5, CallFacts DEF Still, Races, Leaving
<1>9. Unraced'
  <2>1. (k.pc # "idle" /\ ~k.raced) => (~calls[c].raced /\ Fits(k)')
    <3> SUFFICES ASSUME ~k.raced PROVE ~calls[c].raced /\ Fits(k)'
      OBVIOUS
    <3>1. ~calls[c].raced /\ Fits(calls[c])
      BY <1>4, <1>5, CallFacts
    <3>2. Live(s)
      BY <1>2, <1>5, <3>1 DEF Fits
    <3>3. \A x \in Session : /\ Live(x)' <=> (Live(x) /\ x # s)
                             /\ Login(x)' = Login(x)
      <4>1. sessions \in [Session -> Row]
        BY DEF IInv, TypeOK
      <4>2. PICK row : row = [sessions[s] EXCEPT !.status = "ended"]
        OBVIOUS
      <4>3. row.status = "ended" /\ row.login = sessions[s].login
        BY <1>6, <4>1, <4>2 DEF Row
      <4>4. sessions' = [sessions EXCEPT ![s] = row]
        BY <1>5, <4>2
      <4> QED BY <1>6, <4>1, <4>3, <4>4 DEF Live, Login
    <3>4. \A x \in Session : Live(x)' => Login(x)' # Login(s)'
      BY <1>6, <3>2, <3>3 DEF IInv, Sole
    <3>5. Fits(k)'
      BY <1>4, <3>4 DEF Fits, Carrying
    <3> QED BY <3>1, <3>5
  <2>2. calls[c].pc \in Races
    BY <1>5 DEF Races, Leaving
  <2> QED BY <1>4, <1>5, <2>1, <2>2, OnlyOne
<1>10. /\ \A d \in Call : calls'[d].session = calls[d].session
       /\ \A d \in Call : calls'[d].pc \in Carrying <=> calls[d].pc \in Carrying
       /\ \A d \in Call : calls'[d].pc \in {"revoking", "loggedOut"} =>
                            calls[d].pc \in {"revoking", "loggedOut"}
  BY <1>2, <1>4, <1>5, <1>7 DEF Carrying
<1> QED BY <1>5, <1>6, <1>7, <1>8, <1>9, <1>10, EndedStep

LEMMA EndSessionStep ==
  ASSUME IInv, NEW s \in Session, EndSession(s)
  PROVE  IInv'
<1>1. /\ Live(s) /\ sessions[s].status # "new"
      /\ sessions' = [sessions EXCEPT ![s].status = "ended"]
      /\ spoilt' = spoilt \cup {Login(s)} /\ UNCHANGED <<jar, profile, signedOut>>
      /\ calls' = [c \in Call |-> [calls[c] EXCEPT !.raced = TRUE]]
  BY DEF EndSession, Live
<1>2. ASSUME NEW d \in Call
      PROVE  /\ calls'[d] \in CallState /\ calls'[d].pc = calls[d].pc
             /\ calls'[d].session = calls[d].session /\ calls'[d].raced
  <2>1. calls[d] \in CallState /\ calls'[d] = [calls[d] EXCEPT !.raced = TRUE]
    BY <1>1, CallFacts
  <2> QED BY <2>1 DEF CallState
<1>3. calls' \in [Call -> CallState]
  <2>1. calls' = [c \in Call |-> calls'[c]]
    BY <1>1
  <2> QED BY <1>2, <2>1
<1>4. Unraced'
  BY <1>2 DEF Unraced
<1>5. signedOut # None => \A d \in Call : Still(calls[d])'
  BY <1>2, CallFacts DEF Still
<1> QED BY <1>1, <1>2, <1>3, <1>4, <1>5, EndedStep

-----------------------------------------------------------------------------
LEMMA Invariance == IInv /\ [Next]_vars => IInv'
<1> SUFFICES ASSUME IInv, [Next]_vars PROVE IInv'
  OBVIOUS
<1>1. CASE UNCHANGED vars
  <2>1. /\ sessions' = sessions /\ jar' = jar /\ profile' = profile /\ calls' = calls
        /\ spoilt' = spoilt /\ signedOut' = signedOut
    BY <1>1 DEF vars
  <2>2. TypeOK' /\ NewUnused' /\ LoginKnown' /\ Sole' /\ InFlight' /\ Named' /\ SessionKept'
    BY <2>1 DEF IInv, TypeOK, NewUnused, LoginKnown, Sole, InFlight, Named, SessionKept,
                Live, Login
  <2>3. Unraced' /\ Quiet'
    BY <2>1 DEF IInv, Unraced, Quiet, Fits, Overlapped, Still, Live, Login
  <2> QED BY <2>2, <2>3 DEF IInv
<1>2. CASE \E s \in Session : EndSession(s)
  BY <1>2, EndSessionStep
<1>3. CASE ExpireToken
  BY <1>3, ExpireTokenStep
<1>4. ASSUME NEW c \in Call,
             \/ Me(c) \/ Refuse(c) \/ RotateFails(c) \/ Authorise(c) \/ RevokeSession(c)
             \/ LogoutFails(c) \/ SetProfile(c) \/ RequestTokenRefresh(c) \/ Refreshed(c)
             \/ DropProfile(c) \/ LoggedIn(c) \/ SignedOut(c) \/ Lost(c)
      PROVE  IInv'
  BY <1>4, MeStep, RefuseStep, RotateFailsStep, AuthoriseStep, RevokeSessionStep,
     LogoutFailsStep, SetProfileStep, RequestTokenRefreshStep, RefreshedStep, DropProfileStep,
     LoggedInStep, SignedOutStep, LostStep
<1>5. ASSUME NEW c \in Call,
             \/ \E s \in Session : SignIn(c, s) \/ Rotate(c, s)
             \/ \E t \in Tab : RefreshProfile(c, t) \/ HandleLogin(c, t) \/ SignOut(c, t)
      PROVE  IInv'
  BY <1>5, SignInStep, RotateStep, BeginStep
<1> QED BY <1>1, <1>2, <1>3, <1>4, <1>5 DEF Next

LEMMA Inductive == Spec => []IInv
  BY InitIInv, Invariance, PTL DEF Spec

-----------------------------------------------------------------------------
(* The jar, the calls and the table keep their types.                      *)
THEOREM TypeCorrect == Spec => []TypeOK
<1>1. IInv => TypeOK
  BY DEF IInv
<1> QED BY <1>1, Inductive, PTL

(* Any number of tabs and calls keep a login that nobody ended between     *)
(* them: its live session is in the jar or in an answer on its way.        *)
THEOREM LoginSurvives == Spec => []SessionKept
<1>1. IInv => SessionKept
  BY DEF IInv
<1> QED BY <1>1, Inductive, PTL

(* A sign-out that no other call raced holds in all tabs until the next    *)
(* sign-in.                                                                *)
THEOREM SignOutStays == Spec => []SignOutHolds
<1>1. IInv => SignOutHolds
  BY DEF IInv, Quiet, SignOutHolds
<1> QED BY <1>1, Inductive, PTL

(* A call under way is of a tab.                                           *)
Tabbed == \A c \in Call : calls[c].pc # "idle" => calls[c].tab \in Tab

LEMMA TabKept ==
  ASSUME TypeOK, Tabbed, NEW c \in Call, NEW k \in CallState, Becomes(c, k),
         k.pc # "idle" => k.tab \in Tab
  PROVE  Tabbed'
<1>1. calls'[c] = k
  BY DEF Becomes
<1>2. ASSUME NEW d \in Call, d # c
      PROVE  calls'[d].pc = calls[d].pc /\ calls'[d].tab = calls[d].tab
  <2>1. calls[d] \in CallState
    BY DEF TypeOK
  <2>2. CASE k.pc \in Races
    <3>1. calls'[d] = [calls[d] EXCEPT !.raced = TRUE]
      BY <1>2, <2>2 DEF Becomes
    <3> QED BY <2>1, <3>1 DEF CallState
  <2>3. CASE k.pc \notin Races
    BY <1>2, <2>3 DEF Becomes
  <2> QED BY <2>2, <2>3
<1> QED BY <1>1, <1>2 DEF Tabbed

(* A call that moves on stays its tab's.                                   *)
LEMMA TabMoves ==
  ASSUME TypeOK, Tabbed, NEW c \in Call, calls[c].pc # "idle", NEW k,
         k \in CallState, k.tab = calls[c].tab, Becomes(c, k)
  PROVE  Tabbed'
  BY TabKept DEF Tabbed

LEMMA TabbedStep == IInv /\ Tabbed /\ [Next]_vars => Tabbed'
<1> SUFFICES ASSUME IInv, Tabbed, [Next]_vars PROVE Tabbed'
  OBVIOUS
<1>0. TypeOK
  BY DEF IInv
<1>1. CASE UNCHANGED vars
  BY <1>1 DEF vars, Tabbed
<1>2. ASSUME NEW s \in Session, EndSession(s) PROVE Tabbed'
  <2>1. ASSUME NEW d \in Call
        PROVE  calls'[d].pc = calls[d].pc /\ calls'[d].tab = calls[d].tab
    <3>1. calls[d] \in CallState /\ calls'[d] = [calls[d] EXCEPT !.raced = TRUE]
      BY <1>2, CallFacts DEF EndSession
    <3> QED BY <3>1 DEF CallState
  <2> QED BY <2>1 DEF Tabbed
<1>3. CASE ExpireToken
  BY <1>3 DEF ExpireToken, Tabbed
<1>4. ASSUME NEW c \in Call, NEW pc \in Moving \cup Leaving \cup Sent, calls[c].pc # "idle",
             Goes(c, pc)
      PROVE  Tabbed'
  <2>1. PICK k : k = [calls[c] EXCEPT !.pc = pc]
    OBVIOUS
  <2>2. calls[c] \in CallState
    BY CallFacts
  <2>3. k \in CallState /\ k.tab = calls[c].tab
    BY <2>1, <2>2 DEF CallState
  <2>4. Becomes(c, k)
    BY <1>4, <2>1 DEF Goes
  <2> QED BY <1>0, <1>4, <2>3, <2>4, TabMoves
<1>5. ASSUME NEW c \in Call, Becomes(c, NoCall) PROVE Tabbed'
  BY <1>0, <1>5, NoCallFacts, TabKept
<1>6. ASSUME NEW c \in Call, NEW pc \in Moving \cup Leaving \cup Sent, calls[c].pc # "idle",
             NEW s \in Session \cup {None},
             Becomes(c, [calls[c] EXCEPT !.pc = pc, !.session = s])
      PROVE  Tabbed'
  <2>1. PICK k : k = [calls[c] EXCEPT !.pc = pc, !.session = s]
    OBVIOUS
  <2>2. calls[c] \in CallState
    BY CallFacts
  <2>3. k \in CallState /\ k.tab = calls[c].tab
    BY <2>1, <2>2 DEF CallState
  <2>4. Becomes(c, k)
    BY <1>6, <2>1
  <2> QED BY <1>0, <1>6, <2>3, <2>4, TabMoves
<1>7. ASSUME NEW c \in Call,
             Me(c) \/ Refuse(c) \/ Authorise(c) \/ RevokeSession(c) \/ LogoutFails(c) \/ LoggedIn(c)
      PROVE  Tabbed'
  <2>1. PICK pc \in Moving \cup Leaving \cup Sent : Goes(c, pc) /\ calls[c].pc # "idle"
    BY <1>7 DEF Me, Refuse, Authorise, RevokeSession, LogoutFails, LoggedIn, Leaving, Sent
  <2> QED BY <1>4, <2>1
<1>8. ASSUME NEW c \in Call, SetProfile(c) \/ DropProfile(c) \/ SignedOut(c) \/ Lost(c)
      PROVE  Tabbed'
  BY <1>5, <1>8 DEF SetProfile, DropProfile, SignedOut, Lost
<1>9. ASSUME NEW c \in Call, \E s \in Session : SignIn(c, s) \/ Rotate(c, s) PROVE Tabbed'
  <2>1. PICK s \in Session, pc \in {"loggedIn", "rotated"} :
          calls[c].pc # "idle" /\ Becomes(c, [calls[c] EXCEPT !.pc = pc, !.session = s])
    BY <1>9 DEF SignIn, Rotate
  <2> QED BY <1>6, <2>1 DEF Moving
<1>10. ASSUME NEW c \in Call, RequestTokenRefresh(c) PROVE Tabbed'
  <2>1. /\ calls[c].pc # "idle" /\ jar.refresh \in Session \cup {None}
        /\ Becomes(c, [calls[c] EXCEPT !.pc = "rotate", !.session = jar.refresh])
    BY <1>10, CallFacts DEF RequestTokenRefresh
  <2> QED BY <1>6, <2>1 DEF Moving
<1>11. ASSUME NEW c \in Call, RotateFails(c) PROVE Tabbed'
  <2>1. PICK k : k = [calls[c] EXCEPT !.pc = "refused", !.raced = TRUE]
    OBVIOUS
  <2>2. calls[c] \in CallState
    BY CallFacts
  <2>3. k \in CallState /\ k.tab = calls[c].tab
    BY <2>1, <2>2 DEF CallState, Sent
  <2>4. Becomes(c, k) /\ calls[c].pc # "idle"
    BY <1>11, <2>1 DEF RotateFails
  <2> QED BY <1>0, <2>3, <2>4, TabMoves
<1>12. ASSUME NEW c \in Call, Refreshed(c) PROVE Tabbed'
  <2>1. PICK k : k = [calls[c] EXCEPT !.pc = "me", !.again = TRUE]
    OBVIOUS
  <2>2. calls[c] \in CallState
    BY CallFacts
  <2>3. k \in CallState /\ k.tab = calls[c].tab
    BY <2>1, <2>2 DEF CallState, Sent
  <2>4. Becomes(c, k) /\ calls[c].pc # "idle"
    BY <1>12, <2>1 DEF Refreshed, Again
  <2> QED BY <1>0, <2>3, <2>4, TabMoves
<1>13. ASSUME NEW c \in Call, NEW t \in Tab,
              RefreshProfile(c, t) \/ HandleLogin(c, t) \/ SignOut(c, t)
       PROVE  Tabbed'
  <2>1. PICK pc \in {"me", "login", "logout"}, s \in {None, jar.token} : Begins(c, t, pc, s)
    BY <1>13 DEF RefreshProfile, HandleLogin, SignOut
  <2>2. PICK b : b = Overlapped(c)
    OBVIOUS
  <2>3. PICK k : k = [NoCall EXCEPT !.pc = pc, !.tab = t, !.session = s, !.raced = b]
    OBVIOUS
  <2>4. b \in BOOLEAN /\ s \in Session \cup {None}
    BY <2>2, CallFacts DEF Overlapped
  <2>5. k \in CallState /\ k.tab = t
    BY <2>3, <2>4, NoCallFacts DEF CallState, Moving, Leaving, Sent
  <2>6. Becomes(c, k)
    BY <2>1, <2>2, <2>3 DEF Begins
  <2> QED BY <1>0, <2>5, <2>6, TabKept
<1>14. ASSUME NEW c \in Call,
              \/ Me(c) \/ Refuse(c) \/ RotateFails(c) \/ Authorise(c) \/ RevokeSession(c)
              \/ LogoutFails(c) \/ SetProfile(c) \/ RequestTokenRefresh(c) \/ Refreshed(c)
              \/ DropProfile(c) \/ LoggedIn(c) \/ SignedOut(c) \/ Lost(c)
       PROVE  Tabbed'
  BY <1>7, <1>8, <1>10, <1>11, <1>12, <1>14
<1> QED BY <1>1, <1>2, <1>3, <1>9, <1>13, <1>14 DEF Next

(* What an unraced call shows is the login of the jar.                     *)
LEMMA ShownStep ==
  ASSUME IInv, Tabbed, NEW c \in Call, ~calls[c].raced, SetProfile(c) \/ DropProfile(c)
  PROVE  profile'[calls[c].tab] = IF Live(jar.refresh) THEN Login(jar.refresh) ELSE None
<1>1. calls[c].pc \in {"shown", "refused", "unauthorized"}
  BY DEF SetProfile, DropProfile
<1>2. Fits(calls[c]) /\ calls[c].tab \in Tab /\ profile \in [Tab -> Session \cup {None}]
  BY <1>1, CallFacts DEF Tabbed
<1>3. CASE SetProfile(c)
  <2>1. calls[c].session = jar.refresh /\ Live(calls[c].session)
    BY <1>2, <1>3 DEF Fits, SetProfile
  <2>2. profile' = [profile EXCEPT ![calls[c].tab] = Login(calls[c].session)]
    BY <1>3 DEF SetProfile, Shows
  <2> QED BY <1>2, <2>1, <2>2
<1>4. CASE DropProfile(c)
  <2>1. ~Live(jar.refresh)
    BY <1>2, <1>4 DEF Fits, DropProfile
  <2>2. profile' = [profile EXCEPT ![calls[c].tab] = None]
    BY <1>4 DEF DropProfile, Shows
  <2> QED BY <1>2, <2>1, <2>2
<1> QED BY <1>3, <1>4

(* A profile that is fetched while no call moves or ends a session shows   *)
(* the login in the jar, through any refresh it takes.                     *)
THEOREM ProfileTrue == Spec => ProfileOfTheJar
<1>1. IInv /\ Tabbed /\ [Next]_vars =>
        [\A c \in Call :
           (~calls[c].raced /\ (SetProfile(c) \/ DropProfile(c))) =>
             profile'[calls[c].tab] = IF Live(jar.refresh) THEN Login(jar.refresh) ELSE None]_vars
  BY ShownStep
<1>2. Init => Tabbed
  BY NoCallFacts DEF Init, Tabbed
<1> QED BY <1>1, <1>2, TabbedStep, Inductive, PTL DEF Spec, ProfileOfTheJar

-----------------------------------------------------------------------------
(* The server the browser talks to.  Its rotation is one step, and it does *)
(* not follow nonces or whose hands a token is in; its sessions move as    *)
(* SessionChains says, which AuthSession implements with all its awaits.   *)

LiveOf(l) == {s \in Session : Live(s) /\ Login(s) = l}
Created == {s \in Session : sessions[s].status # "new"}

Chains == INSTANCE SessionChains WITH
  Nonce <- {}, granted <- {}, given <- Session,
  live <- [l \in Session |-> LiveOf(l)], used <- Created

ChainsMove == [][Chains!Next]_(Chains!vars)

(* What a step may do to the table: open a chain, replace a live session   *)
(* by a new one of its login, or end one.                                  *)
Opens(s) ==
  /\ sessions[s].status = "new"
  /\ sessions' = [sessions EXCEPT ![s] = [status |-> "active", login |-> s]]
Replaces(old, s) ==
  /\ Live(old) /\ sessions[s].status = "new"
  /\ sessions' = [sessions EXCEPT ![old].status = "ended",
                                  ![s] = [status |-> "active", login |-> sessions[old].login]]
Ends(s) ==
  /\ sessions[s].status # "new"
  /\ sessions' = [sessions EXCEPT ![s].status = "ended"]

LEMMA RowsMove ==
  ASSUME IInv, [Next]_vars
  PROVE  \/ sessions' = sessions
         \/ \E s \in Session : Opens(s) \/ Ends(s)
         \/ \E old, s \in Session : Replaces(old, s)
<1> DEFINE Goal == \/ sessions' = sessions
                   \/ \E s \in Session : Opens(s) \/ Ends(s)
                   \/ \E old, s \in Session : Replaces(old, s)
<1>1. ASSUME NEW c \in Call, NEW s \in Session, SignIn(c, s) PROVE Goal
  BY <1>1 DEF SignIn, NewSession, Opens
<1>2. ASSUME NEW c \in Call, NEW s \in Session, Rotated(c, s) PROVE Goal
  <2>1. PICK old : old = calls[c].session
    OBVIOUS
  <2>2. old \in Session
    BY <1>2, <2>1, CallFacts DEF Rotated, Live, IInv
  <2>3. Replaces(old, s)
    BY <1>2, <2>1 DEF Rotated, Replaces
  <2> QED BY <2>2, <2>3
<1>3. ASSUME NEW c \in Call, RevokeSession(c) PROVE Goal
  <2>1. PICK s : s = calls[c].session
    OBVIOUS
  <2>2. s \in Session
    BY <1>3, <2>1, CallFacts DEF RevokeSession, Named, IInv
  <2>3. Ends(s)
    BY <1>3, <2>1, <2>2 DEF RevokeSession, Ends, IInv, NewUnused
  <2> QED BY <2>2, <2>3
<1>4. ASSUME NEW s \in Session, EndSession(s) PROVE Goal
  BY <1>4 DEF EndSession, Ends, Live
<1> QED BY <1>1, <1>2, <1>3, <1>4
        DEF Next, vars, Rotate, RotateFails, Me, Refuse, Authorise, LogoutFails, SetProfile,
            RequestTokenRefresh, Refreshed, DropProfile, LoggedIn, SignedOut, Lost,
            RefreshProfile, HandleLogin, SignOut, ExpireToken

(* Each of the three is a step of the chains.                              *)
LEMMA OpensChain ==
  ASSUME IInv, NEW s \in Session, Opens(s)
  PROVE  Chains!Open(s)
<1>1. /\ sessions \in [Session -> Row] /\ sessions'[s].status = "active" /\ sessions'[s].login = s
      /\ \A x \in Session : x # s => sessions'[x] = sessions[x]
      /\ sessions[s].status = "new"
  BY DEF IInv, TypeOK, Opens
<1>2. s # None /\ sessions[s].login = None /\ \A x \in Session : sessions[x].login # s /\ x # None
  BY <1>1, ClientAssumption DEF IInv, NewUnused
<1>3. s \notin Created /\ Created' = Created \cup {s}
  BY <1>1 DEF Created
<1>4. ASSUME NEW l \in Session PROVE LiveOf(l)' = IF l = s THEN {s} ELSE LiveOf(l)
  <2>1. ASSUME NEW x \in Session
        PROVE  x \in LiveOf(l)' <=> IF l = s THEN x = s ELSE x \in LiveOf(l)
    BY <1>1, <1>2 DEF LiveOf, Live, Login
  <2>2. LiveOf(l) \subseteq Session /\ LiveOf(l)' \subseteq Session
    BY DEF LiveOf
  <2> QED BY <2>1, <2>2
<1>5. [l \in Session |-> LiveOf(l)'] = [[l \in Session |-> LiveOf(l)] EXCEPT ![s] = {s}]
  BY <1>4
<1> QED BY <1>3, <1>5 DEF Chains!Open

LEMMA ReplacesInChain ==
  ASSUME IInv, NEW old \in Session, NEW s \in Session, Replaces(old, s)
  PROVE  \E l \in Session : Chains!Rotate(l, old, s)
<1>1. PICK l : l = sessions[old].login
  OBVIOUS
<1>2. /\ sessions \in [Session -> Row] /\ sessions[s].status = "new" /\ Live(old)
      /\ sessions[old].status = "active" /\ old # s
  BY DEF IInv, TypeOK, Replaces, Live
<1>3. l \in Session /\ Login(old) = l
  BY <1>1, <1>2, LoginFacts DEF IInv
<1>4. /\ sessions'[s].status = "active" /\ sessions'[s].login = l
      /\ sessions'[old].status = "ended" /\ sessions'[old].login = l
      /\ \A x \in Session : x # s /\ x # old => sessions'[x] = sessions[x]
  BY <1>1, <1>2 DEF Replaces, Row
<1>5. None \notin Session
  BY ClientAssumption
<1>6. s \notin Created /\ Created' = Created \cup {s}
  BY <1>2, <1>4 DEF Created
<1>7. LiveOf(l) = {old}
  <2>1. old \in LiveOf(l)
    BY <1>2, <1>3 DEF LiveOf
  <2>2. \A x \in LiveOf(l) : x = old
    BY <1>2, <1>3 DEF LiveOf, IInv, Sole
  <2> QED BY <2>1, <2>2
<1>8. ASSUME NEW m \in Session PROVE LiveOf(m)' = IF m = l THEN {s} ELSE LiveOf(m)
  <2>1. ASSUME NEW x \in Session, x # s, x # old
        PROVE  x \in LiveOf(m)' <=> x \in LiveOf(m)
    BY <1>4, <1>5, <2>1 DEF LiveOf, Live, Login
  <2>2. s \in LiveOf(m)' <=> m = l
    BY <1>4, <1>5 DEF LiveOf, Live, Login
  <2>3. old \notin LiveOf(m)' /\ s \notin LiveOf(m) /\ (m # l => old \notin LiveOf(m))
    BY <1>2, <1>3, <1>4, <1>5 DEF LiveOf, Live, Login
  <2>4. LiveOf(m) \subseteq Session /\ LiveOf(m)' \subseteq Session
    BY DEF LiveOf
  <2> QED BY <1>7, <2>1, <2>2, <2>3, <2>4
<1>9. [m \in Session |-> LiveOf(m)'] = [[m \in Session |-> LiveOf(m)] EXCEPT ![l] = {s}]
  BY <1>8
<1> QED BY <1>3, <1>6, <1>7, <1>9 DEF Chains!Rotate

LEMMA EndsChain ==
  ASSUME IInv, NEW s \in Session, Ends(s)
  PROVE  Chains!End
<1>1. /\ sessions \in [Session -> Row] /\ sessions'[s].status = "ended"
      /\ sessions'[s].login = sessions[s].login /\ sessions[s].status # "new"
      /\ \A x \in Session : x # s => sessions'[x] = sessions[x]
  BY DEF IInv, TypeOK, Ends, Row
<1>2. Created' = Created
  BY <1>1 DEF Created
<1>3. None \notin Session
  BY ClientAssumption
<1>4. ASSUME NEW l \in Session PROVE LiveOf(l)' \in {LiveOf(l), {}}
  <2>1. ASSUME NEW x \in Session
        PROVE  x \in LiveOf(l)' <=> x \in LiveOf(l) /\ x # s
    BY <1>1, <1>3 DEF LiveOf, Live, Login
  <2>2. \A x, y \in LiveOf(l) : x = y
    BY DEF LiveOf, IInv, Sole
  <2>3. LiveOf(l) \subseteq Session /\ LiveOf(l)' \subseteq Session
    BY DEF LiveOf
  <2>4. CASE s \in LiveOf(l)
    <3>1. LiveOf(l)' = {}
      BY <2>1, <2>2, <2>3, <2>4
    <3> QED BY <3>1
  <2>5. CASE s \notin LiveOf(l)
    <3>1. LiveOf(l)' = LiveOf(l)
      BY <2>1, <2>3, <2>5
    <3> QED BY <3>1
  <2> QED BY <2>4, <2>5
<1>5. [l \in Session |-> LiveOf(l)'] \in [Session -> SUBSET Session]
  BY DEF LiveOf
<1> QED BY <1>2, <1>4, <1>5 DEF Chains!End

(* The browser's server moves sessions as the chains do: a login opens a   *)
(* new chain, a rotation moves the one live session of its chain to a new  *)
(* one, every other step at most ends chains, and none is revived.         *)
THEOREM MovesLikeChains == Spec => ChainsMove
<1>1. IInv /\ [Next]_vars => [Chains!Next]_(Chains!vars)
  <2> SUFFICES ASSUME IInv, [Next]_vars
               PROVE  Chains!Next \/ UNCHANGED Chains!vars
    OBVIOUS
  <2>1. CASE sessions' = sessions
    BY <2>1 DEF Chains!vars, LiveOf, Live, Login, Created
  <2>2. ASSUME NEW s \in Session, Opens(s) PROVE Chains!Next
    BY <2>2, OpensChain DEF Chains!Next
  <2>3. ASSUME NEW s \in Session, Ends(s) PROVE Chains!Next
    BY <2>3, EndsChain DEF Chains!Next
  <2>4. ASSUME NEW old \in Session, NEW s \in Session, Replaces(old, s) PROVE Chains!Next
    BY <2>4, ReplacesInChain DEF Chains!Next
  <2> QED BY <2>1, <2>2, <2>3, <2>4, RowsMove
<1> QED BY <1>1, Inductive, PTL DEF Spec, ChainsMove
=============================================================================
