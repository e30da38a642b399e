----------------------------- MODULE MCConsole ------------------------------
(***************************************************************************)
(* Two installs, one row per page; a wallet bounded to 0..2 and a model    *)
(* whose price is its value: each of the two drafts is sound by itself,    *)
(* both together are not.  The empty draft passes the page's own check of  *)
(* the bounds and is the server's to refuse.  At the start no install is   *)
(* banned, or the newer one is, and two exports have been made.            *)
(***************************************************************************)
EXTENDS Console

MCRegistered == {<<"active", "active">>, <<"active", "banned">>}
MCEarlier == <<Event("export", None, None, "ok"), Event("export", None, None, "interrupted")>>
MCEnv == [wallet |-> 2, model |-> 1]
MCBounds == [wallet |-> <<0, 2>>, model |-> None]
MCEmpty == -1
MCDrafts == [wallet |-> {MCEmpty, 1}, model |-> {2}]
=============================================================================
