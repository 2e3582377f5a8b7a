-------------------------- MODULE MCSessionManager --------------------------
EXTENDS SessionManager

\* The instance lets the ids run out: there are more sessions than ids.
ASSUME IdsRunOut == Cardinality(Sessions) > max_session_count_

=============================================================================
