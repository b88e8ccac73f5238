------------------------------- MODULE MCGui -------------------------------
(* A small instance of Gui: two connections, which the dashboard refresh,   *)
(* a restoration and another local program share out among them.           *)
EXTENDS Gui

Ask1(action, who, defects, framing, target) ==
    [action |-> action, who |-> who, defects |-> defects, framing |-> framing,
     target |-> target]

MCRequests == {
    Ask1("delete_permanently", "user", {}, "line", None),
    Ask1("delete_permanently", "root", {}, "line", None),
    Ask1("update_enforcement_policy", "root", {"version", "params"}, "line", "ENFORCEMENT"),
    Ask1("update_enforcement_policy", "admin", {}, "line", "ENFORCEMENT"),
    Ask1("scan_file", "user", {}, "line", "foreign"),
    Ask1("get_status", "user", {}, "silent", None)}

MCOthers == {{}, {Refresh}, UserOps}
MCSections == <<"get_status">>
MCOpRequest == [o \in UserOps |-> Ask1("restore_file", "admin", {}, "line", None)]
=============================================================================
