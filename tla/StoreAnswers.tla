---------------------------- MODULE StoreAnswers ----------------------------
(***************************************************************************)
(* The storage engine behind the GET handler: what clients are answered    *)
(* for the replies the engine really gives (internal/api/get_value.go over *)
(* internal/kvstore/lsm_tree_store.go).                                    *)
(***************************************************************************)
EXTENDS LSMTreeStoreProperties, Handlers

\* A Get that finds a tombstone is answered as one of a key that does not exist
\* (README.md, Deletions: the key is considered deleted and will not be
\* returned; get_value.go:84-93).
DeletedNotReturned ==
  reply.status = "deleted" => GetAnswer(ReplyNow).status = 404
=============================================================================
