----------------------------- MODULE MimeTypes ------------------------------
(***************************************************************************)
(* mime_types.cpp, which client and server share: the Content-Type that    *)
(* the client announces for an extension.  The server tells a login from   *)
(* the upload of a folder by whether there is one at all.                  *)
(***************************************************************************)

mappings ==
  [gif  |-> "image/gif",  pdf |-> "application/pdf", html |-> "text/html",
   jpg  |-> "image/jpeg", csv |-> "text/csv",        mp4  |-> "video/mp4",
   txt  |-> "text/plain", png |-> "image/png",       doc  |-> "application/msword",
   docx |-> "application/vnd.openxmlformats-officedocument.wordprocessingml.document"]

ExtensionToType(extension) ==
  IF extension \in DOMAIN mappings THEN mappings[extension] ELSE "text/plain"

=============================================================================
