--------------------------- MODULE ClientSession ---------------------------
(***************************************************************************)
(* A browser and its sessions: frontend/lib/auth-context.tsx in several    *)
(* tabs over one cookie jar, against the handlers of routes/auth.rs and    *)
(* GET /me.  Requests carry the cookies of the moment they are sent,       *)
(* answers set cookies at the moment they arrive, and both may be late.    *)
(*                                                                         *)
(* A rotation is one step here, see AuthSession for what it consists of.   *)
(* The cookie of the role is set and cleared with the token's.             *)
(***************************************************************************)
CONSTANTS
  Tab,
  Call,     \* the calls of refreshProfile, signOut and handleLogin under way
  Session,  \* ids of user_sessions, of which each is created once
  None

ASSUME ClientAssumption == None \notin Session

VARIABLES
  sessions,   \* table user_sessions
  jar,        \* the session whose token and refresh cookies are in the jar
  profile,    \* of each tab: the login it shows
  calls,
  spoilt,     \* logins that were ended, lost or replaced (history)
  signedOut   \* the last login whose sign-out nothing raced (history)

vars == <<sessions, jar, profile, calls, spoilt, signedOut>>

(* login: the first session of those that were rotated out of one another. *)
Row == [status : {"new", "active", "ended"}, login : Session \cup {None}]

Moving == {"login", "loggedIn", "rotate", "rotated"}
Leaving == {"logout", "revoking", "loggedOut"}
Sent == {"me", "shown", "unauthorized", "refused", "notLoggedOut"}

(* session: what the request or its answer carries; again: GET /me is      *)
(* repeated; raced: another call moved or ended a session, or the server   *)
(* failed, since this one began (history).                                 *)
CallState ==
  [pc : {"idle"} \cup Moving \cup Leaving \cup Sent, tab : Tab \cup {None},
   session : Session \cup {None}, again : BOOLEAN, raced : BOOLEAN]

NoCall == [pc |-> "idle", tab |-> None, session |-> None, again |-> FALSE, raced |-> FALSE]
Empty == [token |-> None, refresh |-> None]

Init ==
  /\ sessions = [s \in Session |-> [status |-> "new", login |-> None]]
  /\ jar = Empty
  /\ profile = [t \in Tab |-> None]
  /\ calls = [c \in Call |-> NoCall]
  /\ spoilt = {}
  /\ signedOut = None

Live(s) == s # None /\ sessions[s].status = "active"
Login(s) == IF s = None THEN None ELSE sessions[s].login

Races == Moving \cup Leaving
Overlapped(c) == \E d \in Call \ {c} : calls[d].pc \in Races

(* One call moves on; a race it enters is a race for all others.           *)
Becomes(c, call) ==
  calls' = [d \in Call |-> IF d = c THEN call
                           ELSE IF call.pc \in Races THEN [calls[d] EXCEPT !.raced = TRUE]
                           ELSE calls[d]]

Goes(c, pc) == Becomes(c, [calls[c] EXCEPT !.pc = pc])

Begins(c, t, pc, s) ==
  /\ calls[c].pc = "idle"
  /\ Becomes(c, [NoCall EXCEPT !.pc = pc, !.tab = t, !.session = s, !.raced = Overlapped(c)])

-----------------------------------------------------------------------------
(* The server.                                                             *)

NewSession(s, login) ==
  /\ sessions[s].status = "new"
  /\ sessions' = [sessions EXCEPT ![s] = [status |-> "active", login |-> login]]

(* The middleware has validated the token, then me reads the profile.      *)
Me(c) ==
  /\ calls[c].pc = "me"
  /\ Goes(c, IF Live(calls[c].session) THEN "shown" ELSE "unauthorized")
  /\ UNCHANGED <<sessions, jar, profile, spoilt, signedOut>>

SignIn(c, s) ==
  /\ calls[c].pc = "login"
  /\ NewSession(s, s)
  /\ Becomes(c, [calls[c] EXCEPT !.pc = "loggedIn", !.session = s])
  /\ UNCHANGED <<jar, profile, spoilt, signedOut>>

(* The session of the refresh cookie ends and its successor begins.        *)
Rotated(c, s) ==
  LET old == calls[c].session
  IN /\ Live(old) /\ sessions[s].status = "new"
     /\ sessions' = [sessions EXCEPT ![old].status = "ended",
                                     ![s] = [status |-> "active", login |-> sessions[old].login]]

Rotate(c, s) ==
  /\ calls[c].pc = "rotate"
  /\ Rotated(c, s)
  /\ Becomes(c, [calls[c] EXCEPT !.pc = "rotated", !.session = s])
  /\ UNCHANGED <<jar, profile, spoilt, signedOut>>

(* No cookie, or a token that was spent or has expired.                    *)
Refuse(c) ==
  /\ calls[c].pc = "rotate" /\ ~Live(calls[c].session)
  /\ Goes(c, "refused")
  /\ UNCHANGED <<sessions, jar, profile, spoilt, signedOut>>

(* 500, before the rotation or after it.                                   *)
RotateFails(c) ==
  /\ calls[c].pc = "rotate"
  /\ \/ UNCHANGED <<sessions, spoilt>>
     \/ /\ \E s \in Session : Rotated(c, s)
        /\ spoilt' = spoilt \cup {Login(calls[c].session)}
  /\ Becomes(c, [calls[c] EXCEPT !.pc = "refused", !.raced = TRUE])
  /\ UNCHANGED <<jar, profile, signedOut>>

(* The middleware, and then the UPDATE of logout.                          *)
Authorise(c) ==
  /\ calls[c].pc = "logout"
  /\ Goes(c, IF Live(calls[c].session) THEN "revoking" ELSE "notLoggedOut")
  /\ UNCHANGED <<sessions, jar, profile, spoilt, signedOut>>

RevokeSession(c) ==
  /\ calls[c].pc = "revoking"
  /\ sessions' = [sessions EXCEPT ![calls[c].session].status = "ended"]
  /\ spoilt' = spoilt \cup {Login(calls[c].session)}
  /\ Goes(c, "loggedOut")
  /\ UNCHANGED <<jar, profile, signedOut>>

LogoutFails(c) ==
  /\ calls[c].pc \in {"logout", "revoking"}
  /\ Goes(c, "notLoggedOut")
  /\ UNCHANGED <<sessions, jar, profile, spoilt, signedOut>>

(* An admin revokes the session, its wallet is deleted, or it expires.     *)
EndSession(s) ==
  /\ Live(s)
  /\ sessions' = [sessions EXCEPT ![s].status = "ended"]
  /\ spoilt' = spoilt \cup {Login(s)}
  /\ calls' = [c \in Call |-> [calls[c] EXCEPT !.raced = TRUE]]
  /\ UNCHANGED <<jar, profile, signedOut>>

-----------------------------------------------------------------------------
(* The browser.                                                            *)

(* Mutant: the cookie of the refresh token is left as it was.              *)
BugOldRefreshCookie(s) == [jar EXCEPT !.token = s]

(* apply_auth_cookies.                                                     *)
AuthCookies(s) == [token |-> s, refresh |-> s]

(* The cookies of another login are overwritten.                           *)
Accept(s) ==
  /\ jar' = AuthCookies(s)
  /\ spoilt' = spoilt \cup ({Login(jar.refresh)} \ {None, Login(s)})

(* Mutant: the cookie of the refresh token is not cleared.                 *)
BugKeepRefreshCookie(old) == [old EXCEPT !.token = None]

(* clear_auth_cookies.                                                     *)
Cleared(old) == Empty

(* max_age of the token's cookie, which is the token's own lifetime.       *)
ExpireToken ==
  /\ jar.token # None
  /\ jar' = [jar EXCEPT !.token = None]
  /\ UNCHANGED <<sessions, profile, calls, spoilt, signedOut>>

Shows(t, login) == profile' = [profile EXCEPT ![t] = login]

RefreshProfile(c, t) ==
  /\ Begins(c, t, "me", jar.token)
  /\ UNCHANGED <<sessions, jar, profile, spoilt, signedOut>>

SetProfile(c) ==
  /\ calls[c].pc = "shown"
  /\ Shows(calls[c].tab, Login(calls[c].session))
  /\ Becomes(c, NoCall)
  /\ UNCHANGED <<sessions, jar, spoilt, signedOut>>

(* The first 401 asks for a refresh.                                       *)
RequestTokenRefresh(c) ==
  /\ calls[c].pc = "unauthorized" /\ ~calls[c].again
  /\ Becomes(c, [calls[c] EXCEPT !.pc = "rotate", !.session = jar.refresh])
  /\ UNCHANGED <<sessions, jar, profile, spoilt, signedOut>>

(* Mutant: the profile is not asked for again.                             *)
BugNotAgain(c, s) == [calls[c] EXCEPT !.pc = "unauthorized", !.again = TRUE]

Again(c, s) == [calls[c] EXCEPT !.pc = "me", !.again = TRUE]

Refreshed(c) ==
  /\ calls[c].pc = "rotated"
  /\ Accept(calls[c].session)
  /\ Becomes(c, Again(c, calls[c].session))
  /\ UNCHANGED <<sessions, profile, signedOut>>

(* Mutant: a refused refresh clears the cookies.                           *)
BugRefusalClears(c) == jar' = Empty

(* The answers of 401 set no cookie.                                       *)
RefusalCookies(c) == UNCHANGED jar

DropProfile(c) ==
  /\ calls[c].pc = "refused" \/ (calls[c].pc = "unauthorized" /\ calls[c].again)
  /\ RefusalCookies(c)
  /\ Shows(calls[c].tab, None)
  /\ Becomes(c, NoCall)
  /\ UNCHANGED <<sessions, spoilt, signedOut>>

HandleLogin(c, t) ==
  /\ Begins(c, t, "login", None)
  /\ signedOut' = None
  /\ UNCHANGED <<sessions, jar, profile, spoilt>>

(* handleLogin then refreshes the profile.                                 *)
LoggedIn(c) ==
  /\ calls[c].pc = "loggedIn"
  /\ Accept(calls[c].session)
  /\ Goes(c, "me")
  /\ UNCHANGED <<sessions, profile, signedOut>>

SignOut(c, t) ==
  /\ Begins(c, t, "logout", jar.token)
  /\ UNCHANGED <<sessions, jar, profile, spoilt, signedOut>>

(* signOut does not look at the status of the answer.                      *)
SignedOut(c) ==
  /\ calls[c].pc \in {"loggedOut", "notLoggedOut"}
  /\ Shows(calls[c].tab, None)
  /\ IF calls[c].pc = "notLoggedOut" THEN UNCHANGED <<jar, spoilt, signedOut>>
     ELSE /\ jar' = Cleared(jar)
          /\ spoilt' = spoilt \cup ({Login(jar.refresh)} \ {None})
          /\ signedOut' = IF calls[c].raced THEN signedOut ELSE Login(calls[c].session)
  /\ Becomes(c, NoCall)
  /\ UNCHANGED sessions

(* The request or its answer is lost, or GET /me fails: the call throws,   *)
(* which refreshProfile catches, and nothing is shown.                     *)
Lost(c) ==
  /\ calls[c].pc # "idle"
  /\ spoilt' = IF calls[c].pc \in {"loggedIn", "rotated"}
                 THEN spoilt \cup {Login(calls[c].session)} ELSE spoilt
  /\ Becomes(c, NoCall)
  /\ UNCHANGED <<sessions, jar, profile, signedOut>>

Next ==
  \/ \E c \in Call :
       \/ Me(c) \/ Refuse(c) \/ RotateFails(c) \/ Authorise(c) \/ RevokeSession(c)
       \/ LogoutFails(c) \/ SetProfile(c) \/ RequestTokenRefresh(c) \/ Refreshed(c)
       \/ DropProfile(c) \/ LoggedIn(c) \/ SignedOut(c) \/ Lost(c)
       \/ \E s \in Session : SignIn(c, s) \/ Rotate(c, s)
       \/ \E t \in Tab : RefreshProfile(c, t) \/ HandleLogin(c, t) \/ SignOut(c, t)
  \/ \E s \in Session : EndSession(s)
  \/ ExpireToken

Spec == Init /\ [][Next]_vars

-----------------------------------------------------------------------------
(* Properties.                                                             *)

(* The two cookies come and go together, but for the token's shorter life. *)
TypeOK ==
  /\ sessions \in [Session -> Row]
  /\ jar \in [token : Session \cup {None}, refresh : Session \cup {None}]
  /\ jar.token \in {None, jar.refresh}
  /\ profile \in [Tab -> Session \cup {None}]
  /\ calls \in [Call -> CallState]
  /\ spoilt \subseteq Session
  /\ signedOut \in Session \cup {None}

(* Several tabs that refresh, sign in and sign out at once do not lose a   *)
(* login between them: unless it was ended, replaced in the jar, or an     *)
(* answer got lost, its live session is in the jar or on its way there.    *)
SessionKept ==
  \A l \in Session :
    (sessions[l].login = l /\ l \notin spoilt) =>
      \E s \in Session :
        /\ Live(s) /\ Login(s) = l
        /\ \/ jar.refresh = s
           \/ \E c \in Call : calls[c].pc \in {"loggedIn", "rotated"} /\ calls[c].session = s

(* After a sign-out that was answered with 204 and not overtaken by a      *)
(* refresh, the browser is signed out in all tabs until somebody signs in: *)
(* the jar is empty and no session of the login lives.                     *)
SignOutHolds ==
  signedOut # None =>
    /\ jar = Empty
    /\ \A s \in Session : Live(s) => Login(s) # signedOut

(* A profile that was asked for and answered while no other call moved or  *)
(* ended a session shows the login in the jar, and nobody only when that   *)
(* cannot be refreshed.                                                    *)
ProfileOfTheJar ==
  [][\A c \in Call :
       (~calls[c].raced /\ (SetProfile(c) \/ DropProfile(c))) =>
         profile'[calls[c].tab] = IF Live(jar.refresh) THEN Login(jar.refresh) ELSE None]_vars
=============================================================================
