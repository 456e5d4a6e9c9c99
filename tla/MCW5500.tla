------------------------------ MODULE MCW5500 ------------------------------
(* Model-checking instances of W5500: the user program (user_main, which   *)
(* asks for the link, and the DHCP server it then starts) alone, and       *)
(* together with the CLI, whose command `link' is a network call too.      *)
EXTENDS W5500

UserOps == [c \in {"user"} |-> {"link", "open", "recv", "send", "send_mac", "bad"}]
UserAndCliOps ==
  [c \in {"user", "cli"} |-> IF c = "cli" THEN {"link"} ELSE {"link", "open", "recv"}]
=============================================================================
