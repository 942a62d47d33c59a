---------------------------- MODULE ImageDecoder ----------------------------
(***************************************************************************)
(* image_decoder_op::instance (src/src/decode_image_frames.cpp): a stream  *)
(* stage between a source of encoded packets (metadata or frames) and a    *)
(* downstream of decoded images.  It pulls from the source one packet at a *)
(* time, feeds the FFmpeg decoder with avcodec_send_packet and takes       *)
(* images out with avcodec_receive_frame, scaling each with _sws_context.  *)
(*                                                                         *)
(* FFmpeg is the environment: the codec holds up to MaxDelay packets it    *)
(* has not returned as frames, send_packet refuses a packet when it is     *)
(* full (EAGAIN) or fails, receive_frame returns a frame, EAGAIN, EOF once *)
(* flushed and empty, or an error; allocations may fail.  Pixels are left  *)
(* out: a frame is its size, and the scaler is the size it was built for.  *)
(* drain() belongs to the stream library (drain_source_impl, not in this   *)
(* repository); it is taken to call drain_impl while the downstream needs  *)
(* items and no on_complete or on_error has gone out.                     *)
(***************************************************************************)
EXTENDS Naturals, Sequences

CONSTANTS
    Metas,          \* encoded_metadata values (codec name and codec data)
    BadCodecs,      \* metadata for which decoder_context returns null
    Res,            \* frame sizes
    MetaRes,        \* the size of the frames of a metadata's stream
    NoMeta,         \* no metadata yet; also a null _context
    NoRes,          \* _image (and _sws_context) not built
    MetadataFirst,  \* the source sends a stream's metadata before its frames
    MaxPackets,     \* bound on the packets the source emits
    MaxDelay,       \* packets the codec holds before it must be read
    MaxDemand,      \* bound on the downstream's outstanding demand
    MaxFaults       \* bound on library failures per behaviour

ASSUME /\ BadCodecs \subseteq Metas /\ MetaRes \in [Metas -> Res]
       /\ NoMeta \notin Metas /\ NoRes \notin Res /\ MetadataFirst \in BOOLEAN
       /\ {MaxPackets, MaxDelay, MaxDemand, MaxFaults} \subseteq Nat

VARIABLES
    metadata,   \* _metadata
    ctx,        \* _context: the metadata it was opened for, or NoMeta (null)
    packet,     \* _packet and _frame allocated
    image,      \* the frame size _image and _sws_context were built for
    buffered,   \* packets the codec holds and has not returned as frames
    flushing,   \* the codec has been sent the null (flush) packet
    source,     \* _source: "attached", or "null" after on_complete/on_error
    requested,  \* request(1) calls the source has not answered
    needs,      \* the downstream's outstanding demand (needs())
    draining,   \* a drain() loop is running
    sent,       \* packets the source has emitted
    terminal,   \* "none", or the on_complete/on_error delivered downstream
    out,        \* delivered images: [size, scaler]
    crash,      \* a null pointer dereferenced
    faults      \* library failures so far

vars == <<metadata, ctx, packet, image, buffered, flushing, source, requested,
          needs, draining, sent, terminal, out, crash, faults>>

Image == [size : Res, scaler : Res]

TypeOK ==
    /\ metadata \in Metas \cup {NoMeta} /\ ctx \in Metas \cup {NoMeta}
    /\ packet \in BOOLEAN /\ image \in Res \cup {NoRes}
    /\ buffered \in 0..MaxDelay /\ flushing \in BOOLEAN
    /\ source \in {"attached", "null"} /\ requested \in 0..MaxPackets
    /\ needs \in 0..MaxDemand /\ draining \in BOOLEAN /\ sent \in 0..MaxPackets
    /\ terminal \in {"none", "complete", "error"}
    /\ out \in Seq(Image) /\ Len(out) <= MaxPackets
    /\ crash \in {"none", "null_packet", "null_context", "null_source"}
    /\ faults \in 0..MaxFaults

Alive == crash = "none"

\* One more FFmpeg or allocation failure.
fault == faults < MaxFaults /\ faults' = faults + 1

\* drain_source_impl's deliver_on_error / deliver_on_complete: the first
\* terminal signal is the one the downstream sees.
deliver_on_error ==
    terminal' = IF terminal = "none" THEN "error" ELSE terminal
deliver_on_complete ==
    terminal' = IF terminal = "none" THEN "complete" ELSE terminal

\* drain(): the drain loop starts (its steps are drain_impl and drain_done).
drain == draining' = TRUE

\* _source->request(1); on a source that has completed _source is null.
\* Demand beyond the packets the source will still emit is not recorded.
request_source ==
    \/ /\ source = "attached"
       /\ requested' = IF requested < MaxPackets - sent THEN requested + 1
                       ELSE requested
       /\ UNCHANGED crash
    \/ /\ source = "null"
       /\ crash' = "null_source"
       /\ UNCHANGED requested

-----------------------------------------------------------------------------
(* The packet handlers.                                                    *)

\* operator()(encoded_metadata): the same metadata again is ignored; new
\* metadata replaces the context (and what the old codec held), _packet and
\* _frame, and reports a context that did not open.  _image is kept.
on_metadata(m) ==
    \/ /\ m = metadata
       /\ UNCHANGED <<metadata, ctx, packet, buffered, flushing, terminal>>
    \/ /\ m # metadata
       /\ metadata' = m
       /\ ctx' = IF m \in BadCodecs THEN NoMeta ELSE m
       /\ packet' = TRUE
       /\ buffered' = 0 /\ flushing' = FALSE
       /\ IF m \in BadCodecs THEN deliver_on_error ELSE UNCHANGED terminal

\* avcodec_send_packet on an open context: accepted, refused (codec full:
\* EAGAIN) or failed.  Every error fails the err > 0 test, so the packet is
\* dropped with no other effect.
send_packet ==
    \/ /\ buffered < MaxDelay
       /\ buffered' = buffered + 1 /\ UNCHANGED faults
    \/ /\ buffered = MaxDelay
       /\ UNCHANGED <<buffered, faults>>
    \/ /\ fault
       /\ UNCHANGED buffered

\* operator()(encoded_frame): av_init_packet(_packet.get()) dereferences
\* _packet, then the packet is sent.  avcodec_send_packet reads the
\* context's internal state first, so a null _context (metadata whose
\* codec did not open leaves _packet allocated) is dereferenced too.
on_frame ==
    \/ /\ ~packet
       /\ crash' = "null_packet"
       /\ UNCHANGED <<buffered, faults, draining>>
    \/ /\ packet /\ ctx = NoMeta
       /\ crash' = "null_context"
       /\ UNCHANGED <<buffered, faults, draining>>
    \/ /\ packet /\ ctx # NoMeta
       /\ send_packet
       /\ drain
       /\ UNCHANGED crash

\* on_next: the source answers a request with a packet, which is visited,
\* then drain() runs.
on_next ==
    /\ Alive /\ source = "attached" /\ ~draining
    /\ requested > 0 /\ sent < MaxPackets
    /\ requested' = requested - 1 /\ sent' = sent + 1
    /\ \/ /\ \E m \in Metas : on_metadata(m)
          /\ drain
          /\ UNCHANGED <<crash, faults>>
       \/ /\ MetadataFirst => metadata # NoMeta
          /\ on_frame
          /\ UNCHANGED <<metadata, ctx, packet, flushing, terminal>>
    /\ UNCHANGED <<image, source, needs, out>>

\* on_complete: _source is cleared; an open codec is flushed with a null
\* packet and drained, otherwise the downstream completes at once.
on_complete ==
    /\ Alive /\ source = "attached" /\ ~draining
    /\ source' = "null"
    /\ \/ /\ ctx # NoMeta
          /\ flushing' = TRUE /\ drain
          /\ UNCHANGED <<terminal, faults>>
       \/ /\ ctx # NoMeta /\ fault
          /\ deliver_on_error
          /\ UNCHANGED <<flushing, draining>>
       \/ /\ ctx = NoMeta
          /\ deliver_on_complete
          /\ UNCHANGED <<flushing, draining, faults>>
    /\ UNCHANGED <<metadata, ctx, packet, image, buffered, requested, needs,
                   sent, out, crash>>

\* on_error from the source: cleared and passed on.
on_error ==
    /\ Alive /\ source = "attached" /\ ~draining
    /\ source' = "null"
    /\ deliver_on_error
    /\ UNCHANGED <<metadata, ctx, packet, image, buffered, flushing, requested,
                   needs, draining, sent, out, crash, faults>>

\* The downstream requests one more image, which drains.
request ==
    /\ Alive /\ ~draining /\ terminal = "none" /\ needs < MaxDemand
    /\ needs' = needs + 1
    /\ drain
    /\ UNCHANGED <<metadata, ctx, packet, image, buffered, flushing, source,
                   requested, sent, terminal, out, crash, faults>>

-----------------------------------------------------------------------------
(* The drain loop.                                                         *)

\* init_image: _sws_context converts from the size of the frame at hand
\* (the bounding box and proportions only shape the output _image).
init_image(size) == size

\* deliver_frame: the first image builds _image and _sws_context (a failed
\* allocation reports the error); every image is scaled with them and
\* delivered.
deliver_frame ==
    LET size == MetaRes[ctx]
    IN  \/ /\ image = NoRes /\ fault
           /\ deliver_on_error
           /\ UNCHANGED <<image, needs, out>>
        \/ /\ image' = IF image = NoRes THEN init_image(size) ELSE image
           /\ out' = Append(out, [size |-> size, scaler |-> image'])
           /\ needs' = needs - 1
           /\ UNCHANGED <<terminal, faults>>

\* The outcomes of avcodec_receive_frame, with what receive_frame and
\* drain_impl do on each.  An image is delivered and the loop goes on.
received_image ==
    /\ buffered > 0
    /\ buffered' = buffered - 1
    /\ deliver_frame
    /\ UNCHANGED <<draining, requested, crash>>

\* AVERROR(EAGAIN): drain_impl requests the next packet and the loop ends.
received_eagain ==
    /\ buffered = 0 /\ ~flushing
    /\ request_source /\ draining' = FALSE
    /\ UNCHANGED <<buffered, image, needs, out, terminal, faults>>

\* AVERROR_EOF, once flushed and empty: the downstream completes.
received_eof ==
    /\ buffered = 0 /\ flushing
    /\ deliver_on_complete /\ draining' = FALSE
    /\ UNCHANGED <<buffered, image, needs, out, requested, crash, faults>>

\* Any other error is reported.
received_error ==
    /\ fault
    /\ deliver_on_error /\ draining' = FALSE
    /\ UNCHANGED <<buffered, image, needs, out, requested, crash>>

\* Mutant: AVERROR_EOF ends the loop without completing the downstream.
receive_frame_eof_silent ==
    /\ \/ received_image \/ received_eagain \/ received_error
       \/ /\ buffered = 0 /\ flushing /\ draining' = FALSE
          /\ UNCHANGED <<buffered, image, needs, out, requested, crash, faults,
                         terminal>>
    /\ UNCHANGED flushing

\* Mutant: EAGAIN is taken for success, and the stale _frame is delivered
\* again.
receive_frame_eagain_delivers ==
    /\ \/ received_image \/ received_eof \/ received_error
       \/ /\ buffered = 0 /\ ~flushing /\ deliver_frame
          /\ UNCHANGED <<buffered, draining, requested, crash>>
    /\ UNCHANGED flushing

\* receive_frame.
receive_frame ==
    /\ received_image \/ received_eagain \/ received_eof \/ received_error
    /\ UNCHANGED flushing

\* drain_impl: with no context, request a packet (metadata is awaited) and
\* stop; otherwise receive a frame.
drain_impl ==
    /\ Alive /\ draining /\ needs > 0 /\ terminal = "none"
    /\ \/ /\ ctx = NoMeta
          /\ request_source /\ draining' = FALSE
          /\ UNCHANGED <<buffered, flushing, image, needs, out, terminal, faults>>
       \/ /\ ctx # NoMeta
          /\ receive_frame
    /\ UNCHANGED <<metadata, ctx, packet, source, sent>>

\* The loop ends once nothing is needed or a terminal signal went out.
drain_done ==
    /\ Alive /\ draining /\ (needs = 0 \/ terminal # "none")
    /\ draining' = FALSE
    /\ UNCHANGED <<metadata, ctx, packet, image, buffered, flushing, source,
                   requested, needs, sent, terminal, out, crash, faults>>

-----------------------------------------------------------------------------

\* The instance just subscribed: every pointer null, no demand yet.
Init ==
    /\ metadata = NoMeta /\ ctx = NoMeta /\ packet = FALSE
    /\ image = NoRes /\ buffered = 0 /\ flushing = FALSE
    /\ source = "attached" /\ requested = 0 /\ needs = 0 /\ draining = FALSE
    /\ sent = 0 /\ terminal = "none" /\ out = <<>>
    /\ crash = "none" /\ faults = 0

Next ==
    \/ on_next
    \/ on_complete
    \/ on_error
    \/ request
    \/ drain_impl
    \/ drain_done

Spec == Init /\ [][Next]_vars

\* The drain loop runs to its end, and the downstream keeps asking.
FairSpec == Spec /\ WF_vars(drain_impl \/ drain_done) /\ WF_vars(request)

-----------------------------------------------------------------------------
(* Properties.                                                             *)

\* No null pointer is dereferenced: operator()(encoded_frame) never runs
\* with a null _packet or passes a null _context to avcodec_send_packet,
\* and drain_impl never calls request on the null _source of a completed
\* stream.
NoCrash == crash = "none"

\* Every delivered image was scaled by an _sws_context built for the size
\* of its frame, also after new metadata has changed the stream.
ScalerMatchesFrame == \A i \in DOMAIN out : out[i].scaler = out[i].size

\* Once the source has completed or failed, the downstream eventually gets
\* on_complete or on_error: the codec is flushed and drained to EOF.
CompletionDelivered == source = "null" ~> terminal # "none"

====
