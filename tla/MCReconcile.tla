---------------------------- MODULE MCReconcile ----------------------------
(* Instances of Reconcile: the deviations a tenant starts with. *)
EXTENDS Reconcile

Missing == {"missing"} \X (Things \ {"policy"})
Drifted == {"other"} \X (Named \union {"scope", "grant", "account", "policy", "profile"})
Rebinds == {<<"elsewhere", "groupRole">>, <<"elsewhere", "userRole">>, <<"inherit", "accountRole">>}

MCDeviations == Missing \union Drifted \union Rebinds \union {<<"stray", "child">>}
MCRebinds == Rebinds
=============================================================================
