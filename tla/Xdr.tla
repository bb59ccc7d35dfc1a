-------------------------------- MODULE Xdr --------------------------------
(***************************************************************************)
(* Sizes on the wire, in bytes, of what replies are put together from:     *)
(* src/rpc/codec.rs and src/nfs3/codec.rs.                                 *)
(***************************************************************************)
EXTENDS Limits

\* accepted_reply_encoder: xid, type, accepted, verifier and status
REPLY_HEADER == 24
\* A HandleCodec handle
HANDLE_SIZE == 45

Padded(n) == 4 * DivCeil(n, 4)
\* write_opaque: the length and the padded bytes
Opaque(n) == 4 + Padded(n)
\* encode_post_attributes: a flag, and fattr3 if there are attributes
PostAttributes(present) == 4 + (IF present THEN 84 ELSE 0)
\* encode_wcc: a flag, and size, mtime and ctime; then the attributes after
Wcc(before, after) == 4 + (IF before THEN 24 ELSE 0) + PostAttributes(after)

\* encode_result of a successful result, without its status and attributes
LookupResult == Opaque(HANDLE_SIZE)
AccessResult == 4
ReadLinkResult(path) == Opaque(path)
ReadResult(length) == 4 + 4 + Opaque(length)
WriteResult == 4 + 4 + 8
CreateResult == 4 + Opaque(HANDLE_SIZE)
FsStatResult == 6 * 8 + 4
FsInfoResult == 7 * 4 + 8 + 8 + 4
PathConfResult == 6 * 4
CommitResult == 8
=============================================================================
