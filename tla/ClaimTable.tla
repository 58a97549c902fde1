------------------------------ MODULE ClaimTable ------------------------------
(***************************************************************************)
(* What advisory claims promise (packages/host/src/kernel/locks.ts): a     *)
(* holder's claim on a scope stands until the holder releases it or its    *)
(* time is up, whoever else claims what; a write is told of the claims of  *)
(* others that stand over its paths, and is never refused.                 *)
(***************************************************************************)
EXTENDS Naturals

CONSTANTS
  ClaimHolders, ClaimScopes, ClaimPaths, Untils,
  CoversPath(_, _)       \* whether a claim on a scope covers a path

VARIABLES
  standing,   \* the claims that stand: [holder, scope, until]
  clock,
  told        \* what the last write was told

tvars == <<standing, clock, told>>

TableInit == standing = {} /\ clock = 0 /\ told = {}

Without(h, s) == {c \in standing : ~(c.holder = h /\ c.scope = s)}

\* A holder claims a scope, or claims it again, or renews: one claim, a new time.
Stand(h, s, until) ==
  /\ until > clock
  /\ standing' = Without(h, s) \cup {[holder |-> h, scope |-> s, until |-> until]}
  /\ UNCHANGED <<clock, told>>

Withdraw(h, s) ==
  /\ standing' = Without(h, s)
  /\ UNCHANGED <<clock, told>>

\* A write by h on paths ps is told of the others' claims, and of nothing else.
Told(h, ps) ==
  /\ told' = {c \in standing : c.holder # h /\ \E p \in ps : CoversPath(c.scope, p)}
  /\ UNCHANGED <<standing, clock>>

\* Time takes away exactly the claims whose time is up.
Pass ==
  /\ clock' = clock + 1
  /\ standing' = {c \in standing : c.until > clock + 1}
  /\ UNCHANGED told

\* A reload of the plugin forgets every claim.
Forget == standing' = {} /\ UNCHANGED <<clock, told>>

TableNext ==
  \/ Forget \/ Pass
  \/ \E h \in ClaimHolders, s \in ClaimScopes :
       Withdraw(h, s) \/ \E until \in Untils : Stand(h, s, until)
  \/ \E h \in ClaimHolders, ps \in SUBSET ClaimPaths : Told(h, ps)

TableSpec == TableInit /\ [][TableNext]_tvars
=============================================================================
