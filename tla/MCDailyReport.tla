--------------------------- MODULE MCDailyReport ---------------------------
(* Values for the constants of DailyReport. *)
EXTENDS DailyReport

EarlierSchemas == {{"agent_url"}, {"created_at"}, {"agent_url", "created_at"}}
BackAndAhead   == {-1, 2}
=============================================================================
