----------------------------- MODULE GpuCatalog -----------------------------
(***************************************************************************)
(* The generated request catalogs of the five DRM command sets: what a     *)
(* request of each command carries.  The rows are those of the catalogs in *)
(* protocol/generated/include/kobox2/gpu_drm_<set>_layout.h, in their      *)
(* order.                                                                  *)
(*                                                                         *)
(*   requests     <<command, inline record (0: none), its bytes, spans,    *)
(*                  attachments>>; the command identifier is the row       *)
(*   spans        <<command identifier, argument, direction, minimum and   *)
(*                  maximum elements, record, bytes of an element>>        *)
(*   attachments  <<command identifier, argument, role, ownership,         *)
(*                  optional, object class>>                               *)
(***************************************************************************)
EXTENDS Integers, Sequences

(* Command sets, in the order of their identifiers. *)
CORE == 1
MODE == 2
VIRTGPU == 3
I915 == 4
AMDGPU == 5

(* The driver-independent DRM commands. *)
CoreRequests == <<
  <<"VERSION", 102, 16, 3, 0>>, <<"GET_UNIQUE", 104, 8, 1, 0>>, <<"GET_CLIENT", 106, 8, 0, 0>>,
  <<"GET_STATS", 0, 0, 1, 0>>, <<"SET_VERSION", 110, 16, 0, 0>>, <<"GET_CAP", 111, 8, 0, 0>>,
  <<"SET_CLIENT_CAP", 113, 16, 0, 0>>, <<"SET_CLIENT_NAME", 114, 8, 1, 0>>,
  <<"GEM_CLOSE", 115, 8, 0, 0>>, <<"GEM_FLINK", 115, 8, 0, 0>>, <<"GEM_OPEN", 117, 8, 0, 0>>,
  <<"GEM_CHANGE_HANDLE", 119, 8, 0, 0>>, <<"PRIME_HANDLE_TO_ATTACHMENT", 120, 8, 0, 0>>,
  <<"PRIME_ATTACHMENT_TO_HANDLE", 121, 8, 0, 1>>, <<"SYNCOBJ_CREATE", 122, 8, 0, 0>>,
  <<"SYNCOBJ_DESTROY", 115, 8, 0, 0>>, <<"SYNCOBJ_HANDLE_TO_ATTACHMENT", 124, 16, 0, 0>>,
  <<"SYNCOBJ_ATTACHMENT_TO_HANDLE", 125, 16, 0, 1>>, <<"SYNCOBJ_WAIT", 126, 16, 1, 0>>,
  <<"SYNCOBJ_RESET", 129, 8, 1, 0>>, <<"SYNCOBJ_SIGNAL", 129, 8, 1, 0>>,
  <<"SYNCOBJ_TIMELINE_WAIT", 126, 16, 1, 0>>, <<"SYNCOBJ_QUERY", 131, 8, 1, 0>>,
  <<"SYNCOBJ_TRANSFER", 132, 32, 0, 0>>, <<"SYNCOBJ_TIMELINE_SIGNAL", 129, 8, 1, 0>>,
  <<"SYNCOBJ_EVENT_ARM", 133, 16, 0, 1>>, <<"POLL_EVENTS", 116, 4, 0, 0>>,
  <<"READ_EVENTS", 104, 8, 1, 0>>>>

CoreSpans == <<
  <<1, 2, 2, 0, 4096, 101, 1>>, <<1, 3, 2, 0, 4096, 101, 1>>, <<1, 4, 2, 0, 4096, 101, 1>>,
  <<2, 2, 2, 0, 4096, 101, 1>>, <<4, 2, 2, 0, 15, 108, 16>>, <<8, 2, 1, 1, 64, 101, 1>>,
  <<19, 2, 1, 1, 65536, 128, 4>>, <<20, 2, 1, 1, 65536, 128, 4>>,
  <<21, 2, 1, 1, 65536, 128, 4>>, <<22, 2, 1, 1, 65536, 130, 16>>,
  <<23, 2, 3, 1, 65536, 130, 16>>, <<25, 2, 1, 1, 65536, 130, 16>>, <<28, 2, 2, 1, 512, 101, 1>>>>

CoreAttachments == <<
  <<14, 2, 1, 2, 0, 2>>, <<18, 2, 1, 2, 0, 6>>, <<18, 2, 1, 2, 0, 3>>, <<26, 2, 1, 2, 0, 4>>>>

(* Mode setting. *)
ModeRequests == <<
  <<"GET_MAGIC", 0, 0, 0, 0>>, <<"AUTH_MAGIC", 104, 4, 0, 0>>, <<"SET_MASTER", 0, 0, 0, 0>>,
  <<"DROP_MASTER", 0, 0, 0, 0>>, <<"WAIT_VBLANK", 106, 24, 0, 0>>,
  <<"CRTC_GET_SEQUENCE", 108, 16, 0, 0>>, <<"CRTC_QUEUE_SEQUENCE", 110, 32, 0, 0>>,
  <<"GET_RESOURCES", 112, 16, 4, 0>>, <<"GET_CRTC", 115, 16, 1, 0>>,
  <<"SET_CRTC", 117, 32, 2, 0>>, <<"CURSOR", 118, 40, 0, 0>>, <<"GET_GAMMA", 119, 16, 3, 0>>,
  <<"SET_GAMMA", 119, 16, 3, 0>>, <<"GET_ENCODER", 122, 16, 0, 0>>,
  <<"GET_CONNECTOR", 124, 32, 3, 0>>, <<"ATTACH_MODE", 127, 16, 1, 0>>,
  <<"DETACH_MODE", 127, 16, 1, 0>>, <<"GET_PROPERTY", 128, 24, 2, 0>>,
  <<"SET_PROPERTY", 131, 24, 0, 0>>, <<"GET_PROPERTY_BLOB", 132, 16, 1, 0>>,
  <<"GET_FB", 134, 16, 0, 0>>, <<"ADD_FB", 136, 36, 0, 0>>, <<"REMOVE_FB", 138, 16, 0, 0>>,
  <<"PAGE_FLIP", 139, 32, 0, 0>>, <<"DIRTY_FB", 140, 24, 1, 0>>,
  <<"CREATE_DUMB", 142, 16, 0, 0>>, <<"MAP_DUMB", 144, 8, 0, 0>>,
  <<"DESTROY_DUMB", 102, 4, 0, 0>>, <<"GET_PLANE_RESOURCES", 146, 8, 1, 0>>,
  <<"GET_PLANE", 147, 16, 1, 0>>, <<"SET_PLANE", 149, 56, 0, 0>>, <<"ADD_FB2", 150, 108, 0, 0>>,
  <<"OBJECT_GET_PROPERTIES", 151, 24, 1, 0>>, <<"OBJECT_SET_PROPERTY", 152, 32, 0, 0>>,
  <<"CURSOR2", 153, 44, 0, 0>>, <<"ATOMIC", 154, 32, 3, 0>>,
  <<"CREATE_PROPERTY_BLOB", 157, 16, 1, 0>>, <<"DESTROY_PROPERTY_BLOB", 138, 16, 0, 0>>,
  <<"CREATE_LEASE", 158, 16, 1, 0>>, <<"LIST_LESSEES", 160, 8, 1, 0>>,
  <<"GET_LEASE", 162, 16, 1, 0>>, <<"REVOKE_LEASE", 163, 8, 0, 0>>,
  <<"GET_FB2", 134, 16, 0, 0>>, <<"CLOSE_FB", 138, 16, 0, 0>>>>

ModeSpans == <<
  <<8, 2, 2, 0, 65536, 102, 4>>, <<8, 3, 2, 0, 65536, 102, 4>>, <<8, 4, 2, 0, 65536, 102, 4>>,
  <<8, 5, 2, 0, 65536, 102, 4>>, <<9, 2, 2, 1, 1, 114, 68>>, <<10, 2, 1, 0, 65536, 102, 4>>,
  <<10, 3, 1, 0, 1, 114, 68>>, <<12, 2, 2, 1, 65536, 120, 2>>, <<12, 3, 2, 1, 65536, 120, 2>>,
  <<12, 4, 2, 1, 65536, 120, 2>>, <<13, 2, 1, 1, 65536, 120, 2>>,
  <<13, 3, 1, 1, 65536, 120, 2>>, <<13, 4, 1, 1, 65536, 120, 2>>,
  <<15, 2, 2, 0, 4096, 114, 68>>, <<15, 3, 2, 0, 65536, 125, 16>>,
  <<15, 4, 2, 0, 65536, 102, 4>>, <<16, 2, 1, 1, 1, 114, 68>>, <<17, 2, 1, 1, 1, 114, 68>>,
  <<18, 2, 2, 0, 65536, 103, 8>>, <<18, 3, 2, 0, 65536, 129, 40>>,
  <<20, 2, 2, 0, 16777216, 101, 1>>, <<25, 2, 1, 0, 256, 141, 16>>,
  <<29, 2, 2, 0, 65536, 102, 4>>, <<30, 2, 2, 0, 65536, 102, 4>>,
  <<33, 2, 2, 0, 65536, 125, 16>>, <<36, 2, 1, 1, 65536, 155, 16>>,
  <<36, 3, 1, 1, 65536, 156, 32>>, <<36, 4, 2, 0, 65536, 165, 16>>,
  <<37, 2, 1, 0, 16777216, 101, 1>>, <<39, 2, 1, 0, 65536, 102, 4>>,
  <<40, 2, 2, 0, 65536, 161, 8>>, <<41, 2, 2, 0, 65536, 102, 4>>>>

(* The VirGL driver. *)
VirtgpuRequests == <<
  <<"MAP", 101, 8, 0, 0>>, <<"EXECBUFFER", 103, 24, 4, 1>>, <<"GETPARAM", 108, 8, 0, 0>>,
  <<"RESOURCE_CREATE", 110, 56, 0, 0>>, <<"RESOURCE_INFO", 112, 8, 0, 0>>,
  <<"TRANSFER_FROM_HOST_3D", 114, 44, 0, 0>>, <<"TRANSFER_TO_HOST_3D", 114, 44, 0, 0>>,
  <<"WAIT", 115, 8, 0, 0>>, <<"GET_CAPS", 116, 16, 1, 0>>,
  <<"RESOURCE_CREATE_BLOB", 118, 32, 1, 0>>, <<"CONTEXT_INIT", 120, 24, 1, 0>>>>

VirtgpuSpans == <<
  <<2, 2, 1, 1, 16777216, 104, 1>>, <<2, 3, 1, 0, 65536, 105, 4>>,
  <<2, 4, 1, 0, 65536, 106, 16>>, <<2, 5, 1, 0, 65536, 106, 16>>,
  <<9, 2, 2, 0, 1048576, 104, 1>>, <<10, 2, 1, 0, 16777216, 104, 1>>,
  <<11, 2, 1, 0, 64, 104, 1>>>>

VirtgpuAttachments == <<
  <<2, 6, 1, 2, 1, 3>>>>

(* The I915 driver. *)
I915Requests == <<
  <<"GETPARAM", 101, 8, 0, 0>>, <<"QUERY", 103, 16, 2, 0>>, <<"GET_APERTURE", 107, 8, 0, 0>>,
  <<"CONTEXT_GETPARAM", 109, 16, 0, 0>>, <<"GEM_CREATE", 111, 16, 0, 0>>,
  <<"GEM_CREATE_EXT", 112, 24, 1, 0>>, <<"GEM_BUSY", 115, 8, 0, 0>>,
  <<"GEM_MADVISE", 116, 12, 0, 0>>, <<"GEM_WAIT", 117, 16, 0, 0>>,
  <<"GEM_SET_DOMAIN", 118, 12, 0, 0>>, <<"GEM_SET_CACHING", 119, 8, 0, 0>>,
  <<"GEM_MMAP_OFFSET", 121, 16, 0, 0>>, <<"CONTEXT_CREATE", 124, 16, 2, 0>>,
  <<"CONTEXT_SETPARAM", 125, 16, 2, 0>>, <<"CONTEXT_DESTROY", 123, 8, 0, 0>>,
  <<"EXECBUFFER", 128, 32, 2, 0>>>>

I915Spans == <<
  <<2, 2, 3, 0, 64, 104, 24>>, <<2, 3, 3, 0, 16777216, 105, 1>>, <<6, 2, 1, 0, 64, 114, 4>>,
  <<13, 2, 1, 0, 64, 126, 32>>, <<13, 3, 1, 0, 4096, 127, 4>>, <<14, 2, 1, 0, 64, 126, 32>>,
  <<14, 3, 1, 0, 4096, 127, 4>>, <<16, 2, 3, 1, 8192, 129, 40>>, <<16, 3, 1, 0, 65536, 130, 8>>>>

(* The AMDGPU driver. *)
AmdgpuRequests == <<
  <<"GEM_CREATE", 101, 32, 0, 0>>, <<"GEM_MMAP", 103, 8, 0, 0>>, <<"CONTEXT", 105, 16, 0, 0>>,
  <<"BO_LIST", 107, 16, 1, 0>>, <<"CS", 110, 16, 1, 0>>, <<"INFO", 122, 32, 1, 0>>,
  <<"GEM_METADATA", 139, 288, 0, 0>>, <<"GEM_WAIT_IDLE", 141, 8, 0, 0>>,
  <<"GEM_VA", 143, 56, 1, 0>>, <<"WAIT_CS", 144, 24, 0, 0>>, <<"GEM_OP", 146, 24, 1, 0>>,
  <<"GEM_USERPTR", 150, 24, 0, 1>>, <<"WAIT_FENCES", 152, 8, 1, 0>>, <<"VM", 154, 8, 0, 0>>,
  <<"FENCE_TO_HANDLE", 156, 32, 0, 0>>, <<"SCHED", 158, 16, 0, 1>>, <<"USERQ", 159, 64, 1, 0>>,
  <<"USERQ_SIGNAL", 164, 16, 3, 0>>, <<"USERQ_WAIT", 167, 24, 5, 0>>,
  <<"GEM_LIST_HANDLES", 170, 8, 1, 0>>>>

AmdgpuSpans == <<
  <<4, 2, 1, 0, 65536, 108, 8>>, <<5, 2, 1, 1, 64, 111, 32>>, <<5, 2, 1, 1, 64, 112, 8>>,
  <<5, 2, 1, 1, 64, 113, 24>>, <<5, 2, 1, 1, 64, 114, 4>>, <<5, 2, 1, 1, 64, 115, 4>>,
  <<5, 2, 1, 1, 64, 116, 8>>, <<5, 2, 1, 1, 64, 117, 24>>, <<5, 2, 1, 1, 64, 118, 16>>,
  <<5, 2, 1, 1, 64, 119, 16>>, <<5, 2, 1, 1, 64, 120, 32>>, <<6, 2, 2, 1, 1048576, 124, 4>>,
  <<6, 2, 2, 1, 1048576, 125, 8>>, <<6, 2, 2, 1, 1048576, 126, 1>>,
  <<6, 2, 2, 1, 1048576, 127, 32>>, <<6, 2, 2, 1, 1048576, 128, 24>>,
  <<6, 2, 2, 1, 1048576, 129, 96>>, <<6, 2, 2, 1, 1048576, 130, 8>>,
  <<6, 2, 2, 1, 1048576, 131, 200>>, <<6, 2, 2, 1, 1048576, 132, 36>>,
  <<6, 2, 2, 1, 1048576, 133, 436>>, <<6, 2, 2, 1, 1048576, 134, 8>>,
  <<6, 2, 2, 1, 1048576, 135, 16>>, <<6, 2, 2, 1, 1048576, 136, 192>>,
  <<6, 2, 2, 1, 1048576, 137, 16>>, <<6, 2, 2, 1, 1048576, 138, 16>>,
  <<9, 2, 1, 0, 65536, 165, 4>>, <<11, 2, 2, 0, 65536, 147, 32>>,
  <<11, 2, 2, 0, 65536, 148, 32>>, <<13, 2, 1, 1, 65536, 151, 24>>, <<17, 2, 1, 0, 1, 161, 16>>,
  <<17, 2, 1, 0, 1, 162, 8>>, <<17, 2, 1, 0, 1, 163, 8>>, <<18, 2, 1, 0, 65536, 165, 4>>,
  <<18, 3, 1, 0, 65536, 165, 4>>, <<18, 4, 1, 0, 65536, 165, 4>>,
  <<19, 2, 1, 0, 65536, 165, 4>>, <<19, 3, 1, 0, 65536, 166, 16>>,
  <<19, 4, 1, 0, 65536, 165, 4>>, <<19, 5, 1, 0, 65536, 165, 4>>,
  <<19, 6, 2, 0, 65536, 168, 16>>, <<20, 2, 2, 0, 65536, 171, 40>>>>

AmdgpuAttachments == <<
  <<12, 2, 1, 2, 0, 1>>, <<16, 2, 1, 1, 0, 5>>>>

(* Bytes of the AMDGPU records 101, 102, ... *)
AmdgpuRecordSizes == <<
  32, 8, 8, 24, 16, 32, 16, 8, 8, 16, 32, 8, 24, 4, 4, 8, 24, 16, 16, 32, 8, 32, 16, 4, 8, 1,
  32, 24, 96, 8, 200, 36, 436, 8, 16, 192, 16, 16, 288, 280, 8, 8, 56, 24, 8, 24, 32, 32, 16,
  24, 24, 8, 8, 8, 8, 32, 8, 16, 64, 8, 16, 8, 8, 16, 4, 16, 24, 16, 8, 8, 40, 8>>

amdgpu_record_size(record) == AmdgpuRecordSizes[record - 100]

Sets == CORE .. AMDGPU
Requests == <<CoreRequests, ModeRequests, VirtgpuRequests, I915Requests, AmdgpuRequests>>

RequestContract(row) ==
  [name |-> row[1], record |-> row[2], words |-> row[3] \div 4, spans |-> row[4],
   attachments |-> row[5]]

SpanContract(row) ==
  [command |-> row[1], argument |-> row[2], direction |-> row[3], minimum |-> row[4],
   maximum |-> row[5], record |-> row[6], size |-> row[7]]

AttachmentContract(row) ==
  [command |-> row[1], argument |-> row[2], role |-> row[3], ownership |-> row[4],
   optional |-> row[5], class |-> row[6]]

Rows(table) == {table[i] : i \in DOMAIN table}

(* The catalogs a request is validated against, by set and command.  An    *)
(* argument has one row per record or class it may carry, and those rows   *)
(* agree on everything else, so their order does not matter.               *)
request_catalog == [set \in Sets |->
  [command \in DOMAIN Requests[set] |-> RequestContract(Requests[set][command])]]

span_catalog == [set \in Sets |->
  LET rows == {SpanContract(row) : row \in Rows(
                 <<CoreSpans, ModeSpans, VirtgpuSpans, I915Spans, AmdgpuSpans>>[set])}
  IN [command \in DOMAIN Requests[set] |-> {row \in rows : row.command = command}]]

attachment_catalog == [set \in Sets |->
  LET rows == {AttachmentContract(row) : row \in Rows(
                 <<CoreAttachments, << >>, VirtgpuAttachments, << >>, AmdgpuAttachments>>[set])}
  IN [command \in DOMAIN Requests[set] |-> {row \in rows : row.command = command}]]
=============================================================================
