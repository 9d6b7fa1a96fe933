---------------------------- MODULE MCChatClient ----------------------------
(* ChatClient for TLC: enough is typed in the first client for a text with *)
(* an empty line after it, and something in the second.                    *)
EXTENDS ChatClient

ThreeThenOne == <<3, 1>>

=============================================================================
