-------------------------- MODULE MCParseRoundTrip ---------------------------
(* A header Varnish may change itself (Via) and an ordinary one (X). *)
EXTENDS ParseRoundTrip

MCSpellings == {"Via", "X", "Host"}
MCCanonical == [s \in MCSpellings |-> s]

=============================================================================
