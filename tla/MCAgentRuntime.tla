---------------------------- MODULE MCAgentRuntime ----------------------------
(* Instances of the agent runtime for TLC: two tenants with an order of the  *)
(* same number, a caller without the role, and an unreliable MCP server.     *)
EXTENDS AgentRuntime, TLC

Who(tenant, role) ==
    [user |-> "u", workspace |-> "w", tenant |-> tenant, role |-> role]

MCRequests ==
    {[who |-> Who("t1", "support"), query |-> TRUE, order |-> "o1", consent |-> c]
        : c \in BOOLEAN}
      \cup {[who |-> Who("t1", "guest"), query |-> TRUE, order |-> "o1", consent |-> TRUE],
            [who |-> Who("", "support"), query |-> TRUE, order |-> "o1", consent |-> FALSE],
            [who |-> Who("t2", "support"), query |-> TRUE, order |-> None, consent |-> FALSE],
            [who |-> Who("t2", "support"), query |-> FALSE, order |-> "o1", consent |-> TRUE]}

MCRisk == "erp.get_order_status" :> "read"
MCAllowlist == "support" :> {"erp.get_order_status"} @@ "guest" :> {}

Data(order, tenant, status) == [order |-> order, tenant |-> tenant, status |-> status]

MCLedger == <<"t1", "o1">> :> Data("o1", "t1", "fine")
            @@ <<"t2", "o1">> :> Data("o1", "t2", "fine")

Good == [source |-> "fine", observed |-> "fine", ref |-> "o1", workspace |-> "w",
         tenant |-> "t1", data |-> Data("o1", None, "fine")]

MCReplies ==
    {Good,
     [Good EXCEPT !.source = "long"], [Good EXCEPT !.ref = "o2"],
     [Good EXCEPT !.tenant = "t2"], [Good EXCEPT !.data = None],
     [Good EXCEPT !.data = Data("o2", "t1", "fine")],
     [Good EXCEPT !.data = Data("o1", "t2", "fine")],
     [Good EXCEPT !.data = Data("o1", "t1", "long")]}

Symmetry == Permutations(Runs)
=============================================================================
