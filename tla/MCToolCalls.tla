---------------------------- MODULE MCToolCalls ----------------------------
(* Instance of ToolCalls: requests for the mail that is to go out once,    *)
(* sound or flawed, and one mailbox tool beside them.                      *)
EXTENDS ToolCalls, TLC

Sound(tool, m, append) ==
    [tool |-> tool, msg |-> m, flaws |-> {}, override |-> append, append |-> append]

MCAsk ==
    UNION {{Sound("send_email", m, TRUE), Sound("send_mail", m, FALSE),
            [Sound("send_mail", m, TRUE) EXCEPT !.flaws = {"values", "header"}],
            [Sound("send_email", m, FALSE) EXCEPT !.flaws = {"header"}],
            [Sound("send_email", m, FALSE) EXCEPT !.flaws = {"values"}],
            [Sound("send_email", m, TRUE) EXCEPT !.flaws = {"sender"}],
            [Sound("send_email", m, TRUE) EXCEPT !.flaws = {"types", "values"}],
            Sound("get_sender_identity", m, FALSE),
            Sound("get_recent_mail", m, FALSE), Sound(NoTool, m, FALSE),
            Sound("delete_folder", m, FALSE)} : m \in Msg}

MCLine == [call: Call, event: {"invalid_input", "permission_disabled", "invalid_session",
                               "result", "not_found", "backend_unavailable",
                               "sender_identity_override"}]

(* An override line carries the addresses asked for besides.               *)
MCSizeOf == [line \in MCLine |-> IF line.event = "sender_identity_override" THEN 3 ELSE 2]

Symmetry == Permutations(Call)
=============================================================================
