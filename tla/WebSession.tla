----------------------------- MODULE WebSession -----------------------------
(***************************************************************************)
(* The dashboard's sessions (internal/web/auth.go).  The server keeps none *)
(* of them: a token carries its user and expiry, signed with the secret of *)
(* the configuration.  The process is restarted, with the file edited and  *)
(* the environment changed (internal/config), while admins hold tokens.    *)
(* Time goes in half seconds, the expiry is in whole ones.  Signatures are *)
(* ideal: two are equal when key and payload are.                          *)
(***************************************************************************)
EXTENDS Integers

CONSTANTS
    Names,          \* values of web.admin_user
    Barred,         \* those with a "|" in them
    Secrets,        \* values of web.session_secret and DUNE_SHOP_WEB_SECRET
    SessionTTL,     \* in seconds
    MaxTime,        \* bound: half seconds
    MaxRestarts     \* bound

Unset == ""

ASSUME WebSessionAssumption ==
    /\ Barred \subseteq Names
    /\ Unset \notin Names \cup Secrets
    /\ SessionTTL \in Nat \ {0} /\ MaxTime \in Nat /\ MaxRestarts \in Nat

VARIABLES
    config,     \* the user and the secret the process runs with
    now,
    tokens,     \* the tokens it issued, and (history) when
    unbroken,   \* history: those since which it always had the same secret
    restarts

sessionVars == <<config, now, tokens, unbroken, restarts>>

Unix(time) == time \div 2

(* Load: what the environment sets wins over the file. *)
Effective(file, env) == [file EXCEPT !.secret = IF env # Unset THEN env ELSE file.secret]

Validate(c) == c.user # Unset /\ c.secret # Unset

Files == [user : Names \cup {Unset}, secret : Secrets \cup {Unset}]

Tokens == [user : Names, exp : Nat, key : Secrets, at : Nat]

SessionInit ==
    /\ config \in {c \in Files : Validate(c)}
    /\ now \in {0, 1}
    /\ tokens = {} /\ unbroken = {}
    /\ restarts = 0

(* Mutant: the session ends with the second it was issued in. *)
VerifyRoundsDown(t) == t.user \notin Barred /\ t.key = config.secret /\ Unix(now) < t.exp

(* Mutant: the expiry is not looked at. *)
VerifyForever(t) == t.user \notin Barred /\ t.key = config.secret

(* The token is split at "|" and has three parts only if its user has none. *)
Verify(t) ==
    /\ t.user \notin Barred
    /\ t.key = config.secret
    /\ Unix(now) <= t.exp

(* handleLogin with the right credentials: setCookie, issue. *)
Login ==
    LET t == [user |-> config.user, exp |-> Unix(now + 2 * SessionTTL),
              key |-> config.secret, at |-> now]
    IN  /\ tokens' = tokens \cup {t} /\ unbroken' = unbroken \cup {t}
        /\ UNCHANGED <<config, now, restarts>>

Restart(file, env) ==
    /\ restarts < MaxRestarts
    /\ Validate(Effective(file, env))
    /\ config' = Effective(file, env)
    /\ unbroken' = IF config'.secret = config.secret THEN unbroken ELSE {}
    /\ restarts' = restarts + 1
    /\ UNCHANGED <<now, tokens>>

Pass ==
    /\ now < MaxTime /\ now' = now + 1
    /\ UNCHANGED <<config, tokens, unbroken, restarts>>

SessionNext ==
    \/ Login \/ Pass
    \/ \E file \in Files, env \in Secrets \cup {Unset} : Restart(file, env)

SessionSpec == SessionInit /\ [][SessionNext]_sessionVars

-----------------------------------------------------------------------------
(* Properties *)

(* "issue builds a signed session token valid for sessionTTL" (auth.go:46): for
   so long, whatever is restarted under the same secret, whoever is the admin
   by then; if the user's name has no "|", which verify takes for its
   separator (auth.go:55). *)
SessionLasts ==
    \A t \in unbroken :
        t.user \notin Barred /\ now <= t.at + 2 * SessionTTL => Verify(t)

(* A token is accepted for less than a second longer, also by a process that
   did not issue it (auth.go:48, 64). *)
SessionEnds == \A t \in tokens : Verify(t) => now < t.at + 2 * SessionTTL + 2
=============================================================================
