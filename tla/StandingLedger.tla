---------------------------- MODULE StandingLedger ----------------------------
(***************************************************************************)
(* What admission promises (packages/governor/src/kernel/admission/        *)
(* service.ts): standing only ever grows, by one claim at a time, and a    *)
(* claim stands at most once and only after its evidence is stored.        *)
(***************************************************************************)
EXTENDS Sequences

CONSTANT Claims

VARIABLES evidence,  \* the claims that were durably stored
          standing   \* the standing chain, oldest admission first

Stands(c) == \E n \in DOMAIN standing : standing[n] = c

LedgerInit == evidence = {} /\ standing = <<>>

Store(c) == evidence' = evidence \cup {c} /\ UNCHANGED standing

Stand(c) ==
  /\ c \in evidence
  /\ ~Stands(c)
  /\ standing' = Append(standing, c)
  /\ UNCHANGED evidence

LedgerNext == \E c \in Claims : Store(c) \/ Stand(c)

LedgerSpec == LedgerInit /\ [][LedgerNext]_<<evidence, standing>>

=============================================================================
