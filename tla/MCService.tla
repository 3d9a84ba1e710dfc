----------------------------- MODULE MCService -----------------------------
(* A hub of one Pool and one MoneroPool, three miners of the Pool at two     *)
(* addresses.  MoneroPool does not survive a reconciliation that fails.      *)
EXTENDS Service

CONSTANTS btc, xmr, k1, k2, k3, home, proxy

MCCoinOf == [k \in Conns |-> btc]
MCIpOf == [k \in Conns |-> IF k = k1 THEN home ELSE proxy]
MCFaults == [c \in Coins |->
  IF c = btc THEN {"port_taken", "reconcile_fails", "poll_raises"}
  ELSE {"wrong_chain", "bad_template", "port_taken"}]
=============================================================================
