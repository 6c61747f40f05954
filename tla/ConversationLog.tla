-------------------------- MODULE ConversationLog --------------------------
(***************************************************************************)
(* What the conversation relation of one session promises to a reader: an  *)
(* append-only log.  The promise is kept as long as the log is `intact'.   *)
(* Once it is not, an append may displace one message that was already in  *)
(* the log, but never more than one, and never invents a message.          *)
(***************************************************************************)
EXTENDS Naturals, Sequences, FiniteSets

CONSTANT Message    \* the messages clients may append

VARIABLES log,      \* the messages of the session, oldest first
          intact    \* is the append-only promise still kept?

logVars == <<log, intact>>

Elements(s) == {s[i] : i \in DOMAIN s}

LogInit ==
  /\ log = <<>>
  /\ intact = TRUE

AppendMessage(m) ==
  /\ intact
  /\ log' = Append(log, m)
  /\ UNCHANGED intact

LosePromise ==
  /\ intact
  /\ intact' = FALSE
  /\ UNCHANGED log

AppendDisplacing(m) ==
  /\ ~intact
  /\ m \in Elements(log')
  /\ Elements(log') \subseteq Elements(log) \cup {m}
  /\ Cardinality(Elements(log) \ Elements(log')) <= 1
  /\ UNCHANGED intact

LogNext ==
  \/ \E m \in Message : AppendMessage(m) \/ AppendDisplacing(m)
  \/ LosePromise

LogSpec == LogInit /\ [][LogNext]_logVars
=============================================================================
