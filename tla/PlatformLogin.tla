---------------------------- MODULE PlatformLogin ----------------------------
(***************************************************************************)
(* Logging in to a platform by QR code (services/platform_auth.py): a      *)
(* session starts a crawler as a child process, which leaves the code and, *)
(* once it is scanned, the cookies as files in the session's directory; a  *)
(* watcher of the session polls for them, saves the cookies as the         *)
(* platform's credential, and puts an end to child and files when they are *)
(* saved, when the child dies, or when the session's time is up.  Of the   *)
(* files that is the code and the cookies: the child's log, the output of  *)
(* its crawl and the directory are never deleted, and are left out here.   *)
(*                                                                         *)
(* One platform, one API process.  Sessions are in its memory: when it     *)
(* dies, children and files stay behind, which is left out.  A request or  *)
(* the watcher runs without interruption up to its next await.             *)
(***************************************************************************)
EXTENDS Naturals, FiniteSets

CONSTANT Logins   \* sessions that may be started

VARIABLES
    logins,         \* of each session: its status, its child, its files and its watcher
    credential      \* whether cookies are stored, and still work

loginVars == <<logins, credential>>

ActiveStatuses == {"starting", "waiting_scan"}
FinalStatuses == {"authenticated", "failed", "expired", "cancelled"}

LoginRecords ==
    [status : {"absent"} \cup ActiveStatuses \cup FinalStatuses,
     listed : BOOLEAN,          \* in the coordinator's _sessions
     child : {"none", "spawning", "running", "exited"},
     exported : BOOLEAN,        \* the child has written its cookies, which it does once
     qr : BOOLEAN, auth : BOOLEAN,      \* qr.json and auth_state.json are there
     kept : SUBSET {"qr", "auth"},      \* those the last cleanup was refused to delete
     late : BOOLEAN,            \* past expires_at
     watcher : {"none", "polling", "saving", "expiring", "ending", "done"},
     cancelling : BOOLEAN]      \* a cancel request waits for the child

NotStarted == [status |-> "absent", listed |-> FALSE, child |-> "none", exported |-> FALSE,
               qr |-> FALSE, auth |-> FALSE, kept |-> {}, late |-> FALSE, watcher |-> "none", cancelling |-> FALSE]

LoginInit ==
    /\ logins = [l \in Logins |-> NotStarted]
    /\ credential \in {"missing", "active"}

LoginGoes(l, rec) == logins' = [logins EXCEPT ![l] = rec]
Active(l) == logins[l].status \in ActiveStatuses
Alive(l) == logins[l].child = "running"

\* _cleanup: the code and the cookies are deleted; an error of the file system is swallowed.
CleanedUp(rec) ==
    {[rec EXCEPT !.qr = q, !.auth = a, !.kept = (IF q THEN {"qr"} ELSE {}) \cup (IF a THEN {"auth"} ELSE {})] :
        q \in {FALSE, rec.qr}, a \in {FALSE, rec.auth}}
LoginCleans(l, rec) == \E cleaned \in CleanedUp(rec) : LoginGoes(l, cleaned)

(***************************** Requests ***********************************)

\* start: while a session of the platform is active, that one is the answer.
StartLogin(l) ==
    /\ logins[l].status = "absent"
    /\ ~\E k \in Logins : logins[k].listed /\ Active(k)
    /\ LoginGoes(l, [NotStarted EXCEPT !.status = "starting", !.listed = TRUE, !.child = "spawning"])
    /\ UNCHANGED credential

Spawned(l) ==
    /\ logins[l].child = "spawning"
    /\ LoginGoes(l, [logins[l] EXCEPT !.child = "running", !.watcher = "polling"])
    /\ UNCHANGED credential

SpawnFails(l) ==
    /\ logins[l].child = "spawning"
    /\ LoginGoes(l, [logins[l] EXCEPT !.child = "none", !.status = "failed"])
    /\ UNCHANGED credential

\* Mutant: a session that has ended shows its code again.
ReadQrAlways(rec) == IF rec.qr THEN [rec EXCEPT !.status = "waiting_scan"] ELSE rec

\* _refresh_qr: an active session whose code is there waits for the scan.
ReadQr(rec) ==
    IF rec.status \in ActiveStatuses /\ rec.qr THEN [rec EXCEPT !.status = "waiting_scan"] ELSE rec

Get(l) ==
    /\ logins[l].listed
    /\ LoginGoes(l, ReadQr(logins[l]))
    /\ UNCHANGED credential

\* cancel: a child that runs is terminated and waited for; then files and session go.
Cancel(l) ==
    LET rec == [logins[l] EXCEPT !.status = IF Active(l) THEN "cancelled" ELSE @] IN
    /\ logins[l].listed
    /\ \/ Alive(l) /\ LoginGoes(l, [rec EXCEPT !.cancelling = TRUE])
       \/ ~Alive(l) /\ LoginCleans(l, [rec EXCEPT !.listed = FALSE])
    /\ UNCHANGED credential

CancelEnds(l) ==
    /\ logins[l].cancelling
    /\ ~Alive(l)
    /\ LoginCleans(l, [logins[l] EXCEPT !.cancelling = FALSE, !.listed = FALSE])
    /\ UNCHANGED credential

Revoke ==
    /\ credential # "missing"
    /\ credential' = "missing"
    /\ UNCHANGED logins

\* A crawl is refused by the platform: whatever credential is stored by now is marked.
MarkFailed ==
    /\ credential = "active"
    /\ credential' = "invalid"
    /\ UNCHANGED logins

(***************************** The child **********************************)

ShowQr(l) ==
    /\ Alive(l)
    /\ ~logins[l].exported
    /\ LoginGoes(l, [logins[l] EXCEPT !.qr = TRUE])
    /\ UNCHANGED credential

ExportCookies(l) ==
    /\ Alive(l)
    /\ ~logins[l].exported
    /\ LoginGoes(l, [logins[l] EXCEPT !.exported = TRUE, !.auth = TRUE])
    /\ UNCHANGED credential

\* It ends, by itself or at last killed by whoever waits for its end.
ChildExits(l) ==
    /\ Alive(l)
    /\ LoginGoes(l, [logins[l] EXCEPT !.child = "exited"])
    /\ UNCHANGED credential

Terminated(l) == logins[l].cancelling \/ logins[l].watcher \in {"expiring", "ending"}

(***************************** The watcher ********************************)

TimePasses(l) ==
    /\ logins[l].status # "absent"
    /\ ~logins[l].late
    /\ LoginGoes(l, [logins[l] EXCEPT !.late = TRUE])
    /\ UNCHANGED credential

\* One turn of the loop: cookies are read, or the time is up, or the child is gone without any.
Watch(l) ==
    LET rec == ReadQr(logins[l])
        dead == ~Alive(l) /\ rec.status \in ActiveStatuses IN
    /\ logins[l].watcher = "polling"
    /\ \/ logins[l].auth /\ LoginGoes(l, [logins[l] EXCEPT !.watcher = "saving"])
       \/ /\ ~logins[l].auth /\ rec.late
          /\ LoginGoes(l, [rec EXCEPT !.status = "expired", !.watcher = "expiring"])
       \/ /\ ~logins[l].auth /\ ~rec.late /\ dead
          /\ LoginCleans(l, [rec EXCEPT !.status = "failed", !.watcher = "done"])
       \/ ~logins[l].auth /\ ~rec.late /\ ~dead /\ LoginGoes(l, rec)
    /\ UNCHANGED credential

\* The cookies are stored; the files go before the child does.
Saved(l) ==
    /\ logins[l].watcher = "saving"
    /\ credential' = "active"
    /\ LoginCleans(l, [logins[l] EXCEPT !.status = "authenticated", !.watcher = "ending"])

\* They are unusable, or cannot be stored.
SaveFails(l) ==
    /\ logins[l].watcher = "saving"
    /\ LoginCleans(l, [logins[l] EXCEPT !.status = "failed", !.watcher = "ending"])
    /\ UNCHANGED credential

\* Mutant: the files of an expired session are forgotten.
WatcherForgets(l) ==
    /\ logins[l].watcher \in {"expiring", "ending"}
    /\ ~Alive(l)
    /\ LoginGoes(l, [logins[l] EXCEPT !.watcher = "done"])
    /\ UNCHANGED credential

\* The child has ended: of an expired session the files go now, when nobody can write them again.
WatcherEnds(l) ==
    /\ logins[l].watcher \in {"expiring", "ending"}
    /\ ~Alive(l)
    /\ LET rec == [logins[l] EXCEPT !.watcher = "done"]
       IN  \/ logins[l].watcher = "expiring" /\ LoginCleans(l, rec)
           \/ logins[l].watcher = "ending" /\ LoginGoes(l, rec)
    /\ UNCHANGED credential

LoginNext ==
    \/ \E l \in Logins : \/ StartLogin(l) \/ Spawned(l) \/ SpawnFails(l)
                         \/ Get(l) \/ Cancel(l) \/ CancelEnds(l)
                         \/ ShowQr(l) \/ ExportCookies(l) \/ ChildExits(l)
                         \/ TimePasses(l) \/ Watch(l) \/ Saved(l) \/ SaveFails(l) \/ WatcherEnds(l)
    \/ Revoke \/ MarkFailed

LoginSpec == LoginInit /\ [][LoginNext]_loginVars

\* What the process has begun it goes on with, time passes, and a terminated child ends.
LoginFairness ==
    \A l \in Logins :
        /\ WF_loginVars(Spawned(l) \/ SpawnFails(l))
        /\ WF_loginVars(CancelEnds(l))
        /\ WF_loginVars(Terminated(l) /\ ChildExits(l))
        /\ WF_loginVars(TimePasses(l))
        /\ WF_loginVars(Watch(l))
        /\ WF_loginVars(Saved(l) \/ SaveFails(l))
        /\ WF_loginVars(WatcherEnds(l))

(***************************** Properties *********************************)

LoginTypeOK ==
    /\ logins \in [Logins -> LoginRecords]
    /\ credential \in {"missing", "active", "invalid"}

\* "One active login session of a platform at a time": a session that has ended, but whose child or
\* watcher lingers while the next one is started, never counts as active again.
OneLoginAtATime == Cardinality({l \in Logins : logins[l].listed /\ Active(l)}) <= 1

\* However a login ends, is cancelled, or is cancelled while it starts: in the end its status is
\* final, its child is dead, and its code and its cookies are gone, but for a file that the last
\* cleanup was refused to delete.
LoginsLeaveNoCookies ==
    \A l \in Logins :
        <>[](/\ logins[l].status \in FinalStatuses \cup {"absent"}
             /\ logins[l].child \in {"none", "exited"}
             /\ logins[l].qr => "qr" \in logins[l].kept
             /\ logins[l].auth => "auth" \in logins[l].kept)
=============================================================================
