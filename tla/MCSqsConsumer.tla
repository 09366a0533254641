---------------------------- MODULE MCSqsConsumer ----------------------------
(***************************************************************************)
(* Message groups for model checking SqsConsumer.                          *)
(***************************************************************************)
EXTENDS SqsConsumer, TLC

\* A message that is refused again and again in front of one with a known
\* message id and other content.
Refused == 1 :> "correctable" @@ 2 :> "poison"

\* A message that does not parse in front of a valid one.
Broken == 1 :> "malformed" @@ 2 :> "valid"

=============================================================================
