------------------------ MODULE MCSessionContinuity ------------------------
\* Two dialogs whose answers differ, and clients that compact.
EXTENDS SessionContinuity

OwnAnswers == [d \in Dialogs |-> {<<"answer", d>>}]
=============================================================================
