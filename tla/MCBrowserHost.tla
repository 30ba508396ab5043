--------------------------- MODULE MCBrowserHost ---------------------------
(***************************************************************************)
(* BrowserHost with two routes, four tabs and four loads of the            *)
(* environment: one for the preflights of two wakes through a crash and a  *)
(* change of the route, one for the limits of the account, one for         *)
(* rollovers, rebinding and a page that goes astray, and one for a route   *)
(* that is unbound under a rollover and bound again.                       *)
(***************************************************************************)
EXTENDS BrowserHost

CONSTANTS t1, t2, t3, t4, r1, r2

FourTabs == {t1, t2, t3, t4}

Nothing == [e \in HostEvents |-> 0]

PreflightLoad == [Nothing EXCEPT !["arm"] = 2, !["switch"] = 2, !["crash"] = 1, !["turn"] = 1]
LimitLoad == [Nothing EXCEPT !["arm"] = 1, !["limit"] = 2, !["crash"] = 1, !["mishap"] = 1]
RolloverLoad == [Nothing EXCEPT !["roll"] = 2, !["mishap"] = 1, !["arm"] = 1, !["rebind"] = 1]
UnbindLoad == [Nothing EXCEPT !["roll"] = 1, !["switch"] = 1, !["arm"] = 1, !["rebind"] = 1, !["unbind"] = 1]

AllLoads == {PreflightLoad, LimitLoad, RolloverLoad, UnbindLoad}
=============================================================================
