---------------------------- MODULE MCMailboxes ----------------------------
(***************************************************************************)
(* The instance of Mailboxes that shows what SetLoginServerEvent does; the *)
(* others are in MCParts and MCLive.                                       *)
(***************************************************************************)
EXTENDS Mailboxes

LoginEvents == {"login"}
=============================================================================
