--------------------------- MODULE MCServerService ---------------------------
EXTENDS ServerService

\* There is a fresh session for every call, and ids run out: accepts that fail
\* keep theirs.
ASSUME AlwaysFresh ==
    Cardinality(Sessions) >= max_session_count_ + Cardinality(Threads)

\* All that the state says of a session, which is what tells it from others.
\* The id of a session that is gone, and the session of an event that has none
\* waiting, are written before they are read again.
Roles(s) ==
    LET roles == <<{i \in Manager!Ids : session_list_[i] = s},
                   {t \in Threads : task[t] = s}, {t \in Threads : session[t] = s},
                   {e \in AcceptEvents : Waits(e) /\ accept_session_[e] = s},
                   s \in started, s \in leaked>>
    IN  IF roles = <<{}, {}, {}, {}, FALSE, FALSE>> THEN <<roles, -1>>
                                                    ELSE <<roles, session_id_[s]>>

\* VIEW: the state up to the names of sessions, which are interchangeable, and
\* without the variables of a call that has returned.
Live ==
    <<id_map_, pc, at, posted, closed, given_up, to_connect, {Roles(s) : s \in Sessions},
      [t \in Threads |->
         IF pc[t] \in {"scan", "failed"} \/ at[t] \in {"dial", "null_session"}
             THEN <<index[t], traverse_count[t], unused[t]>> ELSE <<0, 0, {}>>],
      [t \in Threads |-> IF pc[t] \in {"erase", "return"} THEN removed_id[t] ELSE 0],
      [t \in Threads |->
         IF at[t] \in {"register", "create", "process"} THEN accept_event[t] ELSE 1]>>

=============================================================================
