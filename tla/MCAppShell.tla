----------------------------- MODULE MCAppShell -----------------------------
(* One agent of each mode; three things open or in flight. *)
EXTENDS AppShell

CONSTANTS live1, demo1

MCLiveAgents == {live1}
MCDemoAgents == {demo1}
=============================================================================
