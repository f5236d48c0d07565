---------------------------- MODULE MCEventFlow ----------------------------
(* A photo and a document, sent as a reply, that have the same file name, and  *)
(* a text; one read of messages at a time.                                     *)
EXTENDS EventFlow, TLC

CONSTANTS photo, document, text, api

Emitted(m, kind) == [message |-> m, kind |-> kind]

MCMessage == {photo, document, text}
MCMedia == {photo, document}
MCQuoting == {photo}
MCFileName == (photo :> "image.jpg") @@ (document :> "image.jpg") @@ (text :> "text.bin")
MCEvent ==
  {Emitted(photo, "message.created"),
   Emitted(text, "message.received"), Emitted(text, "message.ack")}

MCReader == {api}

MCFaults == {{}, {"storage", "download", "disk", "workflow"}}
=============================================================================
