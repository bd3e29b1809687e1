------------------------------ MODULE MCHiveview ------------------------------
(* Instances of Hiveview: three runs of two suites by two clients. *)
EXTENDS Hiveview

Run(n, cs, st, d, h) == [name |-> n, clients |-> cs, status |-> st, days |-> d, hits |-> h]
MCListing == {
  Run("rpc", {"a"}, "PASS", {"0"}, {"r"}),
  Run("rpc", {"a", "b"}, "FAIL", {"1"}, {"r", "rp"}),
  Run("soak", {"b"}, "FAIL", {"0"}, {"r"})}
MCMenu == [daysago |-> {}, status |-> {{"FAIL"}}]
MCExtends == {<<"", "r">>, <<"", "rp">>, <<"r", "rp">>}
Plain == [value |-> NoFilters, order |-> <<>>, group |-> "suite", sort |-> "name"]
Stale == [value |-> [NoFilters EXCEPT !["client"] = {"c"}, !["status"] = {"FAIL"}],
          order |-> <<"client", "suite", "status">>, group |-> "client", sort |-> "time"]
MCBookmarks == {Plain, Stale}
MCOrders == {<<1, 2>>, <<2, 1>>}
=============================================================================
