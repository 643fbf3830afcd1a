--------------------------- MODULE MCPluginRegistry ---------------------------
\* Two versions of a plugin, the newer one with the older directory, and a
\* plugin whose name begins with its name.
EXTENDS PluginRegistry, TLC

MCPackages ==
    {[name |-> "erp", version |-> 1, mtime |-> 2],
     [name |-> "erp", version |-> 2, mtime |-> 1],
     [name |-> "erp-mock", version |-> 1, mtime |-> 3]}

MCFinds == "erp" :> {"erp", "erp-mock"} @@ "erp-mock" :> {"erp-mock"}
=============================================================================
