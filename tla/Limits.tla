------------------------------- MODULE Limits -------------------------------
(***************************************************************************)
(* ServerLimits, src/server/limits.rs: the limits an operator may set, the *)
(* ones validate accepts, and the size of record they can carry.  Sizes    *)
(* are in bytes.  The limits on time are not part of the model.            *)
(***************************************************************************)
EXTENDS Naturals

CONSTANTS
    MAX_PERMITS,    \* tokio::sync::Semaphore::MAX_PERMITS
    U32_MAX, USIZE_MAX

ASSUME PlatformConstants ==
    /\ MAX_PERMITS \in Nat /\ U32_MAX \in Nat /\ USIZE_MAX \in Nat
    /\ MAX_PERMITS <= USIZE_MAX /\ U32_MAX <= USIZE_MAX

MAX_FRAGMENT == 2147483647
MAXIMUM_MUTATION_REPLY_SIZE == 304
MAX_VALID_RPC_CALL_PREFIX_SIZE == 440
WRITE_ARGUMENT_FIXED_SIZE == 68 + 8 + 4 + 4 + 4
MAXIMUM_WRITE_RECORD_OVERHEAD == MAX_VALID_RPC_CALL_PREFIX_SIZE + WRITE_ARGUMENT_FIXED_SIZE + 3
MAXIMUM_READ_REPLY_OVERHEAD == 24 + 4 + 88 + 4 + 4 + 4 + 3
READDIR_REPLY_OVERHEAD == 24 + 4

ServerLimits ==
    [max_connections : Nat, max_requests_per_connection : Nat, max_inflight_requests : Nat,
     max_rpc_record_size : Nat, max_rpc_fragment_size : Nat, max_fragments_per_record : Nat,
     max_buffered_request_bytes : Nat, max_buffered_reply_bytes : Nat,
     max_read_size : Nat, max_write_size : Nat, max_readdir_response_size : Nat,
     replay_cache_capacity : Nat, replay_cache_max_bytes : Nat, max_mounts : Nat]

Smaller(a, b) == IF a <= b THEN a ELSE b
SaturatingSub(a, b) == IF a >= b THEN a - b ELSE 0
SaturatingMul(a, b) == Smaller(a * b, USIZE_MAX)
\* usize::div_ceil, for b > 0
DivCeil(a, b) == a \div b + (IF a % b = 0 THEN 0 ELSE 1)

TransportRecordCapacity(l) ==
    Smaller(l.max_rpc_record_size,
            SaturatingMul(l.max_rpc_fragment_size, l.max_fragments_per_record))

OutboundLengthFits(length, l) ==
    /\ length <= l.max_rpc_record_size
    /\ DivCeil(length, l.max_rpc_fragment_size) <= l.max_fragments_per_record

ConcurrencyValid(l) ==
    /\ l.max_connections \in 1..MAX_PERMITS
    /\ l.max_requests_per_connection \in 1..MAX_PERMITS
    /\ l.max_inflight_requests \in 1..MAX_PERMITS

TransportValid(l) ==
    /\ l.max_rpc_fragment_size # 0 /\ l.max_rpc_record_size >= l.max_rpc_fragment_size
    /\ l.max_rpc_fragment_size <= MAX_FRAGMENT /\ l.max_rpc_record_size <= U32_MAX
    /\ l.max_fragments_per_record # 0

TablesValid(l) ==
    l.replay_cache_capacity # 0 /\ l.replay_cache_max_bytes # 0 /\ l.max_mounts # 0

BudgetsValid(l) ==
    /\ l.max_buffered_request_bytes >= l.max_rpc_record_size
    /\ l.max_buffered_reply_bytes >= l.max_rpc_record_size
    /\ l.max_buffered_request_bytes <= MAX_PERMITS
    /\ l.max_buffered_reply_bytes <= MAX_PERMITS

MutationReplyFits(l) == OutboundLengthFits(MAXIMUM_MUTATION_REPLY_SIZE, l)

TransfersValid(l) ==
    LET Within(size, overhead) ==
            size # 0 /\ size <= SaturatingSub(TransportRecordCapacity(l), overhead)
    IN /\ Within(l.max_read_size, MAXIMUM_READ_REPLY_OVERHEAD)
       /\ Within(l.max_write_size, MAXIMUM_WRITE_RECORD_OVERHEAD)
       /\ Within(l.max_readdir_response_size, READDIR_REPLY_OVERHEAD)

\* ServerLimits::validate returns Ok.
Validate(l) ==
    /\ ConcurrencyValid(l) /\ TransportValid(l) /\ TablesValid(l)
    /\ BudgetsValid(l) /\ MutationReplyFits(l) /\ TransfersValid(l)
=============================================================================
