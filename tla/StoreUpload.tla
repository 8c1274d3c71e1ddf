---------------------------- MODULE StoreUpload ----------------------------
(***************************************************************************)
(* One POST /api/v1/images and its numbers: which requests Store admits,   *)
(* the size rows they become, and the outputs the job makes of them, under *)
(* settings that may be missing, odd or unreadable.  One goroutine and no  *)
(* failing statement: ImagePipeline has those.                             *)
(***************************************************************************)
EXTENDS ImageSettings, ResizeGeometry, Sequences

CONSTANT Inputs   \* bound: the requests, files and settings examined

VARIABLES
  input,   \* [env, file, data, sizes], chosen at the start
  stage,   \* the check or step that comes next
  rows,    \* image_processing_request_sizes, all with their specs
  todo,    \* those the loops of Handle have not come to
  outputs  \* [spec, width, height] of every output made

vars == <<input, stage, rows, todo, outputs>>

env   == input.env
file  == input.file
sizes == input.sizes

Stages == {"boot", "file", "data", "rules", "duplicates", "create", "slot",
           "inspect", "resize", "done", "rejected", "failed", "dead"}

\* file: FALSE for present if there is none; sizeKnown if file.Size() works.
\* sizes: width, height, mode ("" if absent) and quality, in order.
IsInput(i) ==
  /\ i.env \in [Settings -> Int \cup {Unset, Garbage}]
  /\ i.file \in [present : BOOLEAN, bytes : Nat, sizeKnown : BOOLEAN,
                 decodes : BOOLEAN, width : Nat \ {0}, height : Nat \ {0},
                 rotated : BOOLEAN]
  /\ i.data \in {"missing", "no JSON", "JSON"}
  /\ i.sizes \in Seq([width : Int, height : Int,
                      mode : Modes \cup {"", "other"}, quality : Int \cup {Nil}])

ASSUME InputsAssumption == \A i \in Inputs : IsInput(i)

Init == /\ input \in Inputs
        /\ stage = "boot"
        /\ rows = {} /\ todo = {} /\ outputs = {}

Go(from, to) == stage = from /\ stage' = to

Untouched == UNCHANGED <<input, rows, todo, outputs>>

\* The channel processingSemaphore is made when the package is loaded.
Boot == /\ Go("boot", IF MaxConcurrentImageJobs(env) < 0 THEN "dead"
                                                         ELSE "file")
        /\ Untouched

(***************************************************************************)
(* Store's checks, in their order.                                         *)
(***************************************************************************)
\* A file whose size cannot be told is not too large.
TooLarge == file.sizeKnown /\ file.bytes > MaxImageFileSize(env)

CheckFile == /\ Go("file", IF ~file.present \/ TooLarge THEN "rejected"
                                                        ELSE "data")
             /\ Untouched

CheckData == /\ Go("data", IF input.data # "JSON" THEN "rejected" ELSE "rules")
             /\ Untouched

SideInRange(n, configured) ==
  n \in 1 .. Smaller(configured, MaxSupportedDimension)

\* The validator skips the rules of a quality that is empty, as 0 is.
SizePasses(s) ==
  /\ SideInRange(s.width, MaxImageWidth(env))
  /\ SideInRange(s.height, MaxImageHeight(env))
  /\ s.mode \in Modes \cup {""}
  /\ \/ s.quality \in {Nil, 0}
     \/ s.quality \in QualityMin(env) .. QualityMax(env)

CheckRules ==
  /\ Go("rules", IF /\ Len(sizes) \in 1 .. MaxSizesPerRequest(env)
                    /\ \A k \in DOMAIN sizes : SizePasses(sizes[k])
                   THEN "duplicates" ELSE "rejected")
  /\ Untouched

SameSize(s, t) == s.width = t.width /\ s.height = t.height

HasDuplicateEntry(list) ==
  \E j, k \in DOMAIN list : j # k /\ list[j] = list[k]

HasDuplicateSize(list) ==
  \E j, k \in DOMAIN list : j # k /\ SameSize(list[j], list[k])

CheckDuplicates ==
  /\ Go("duplicates", IF HasDuplicateSize(sizes) THEN "rejected" ELSE "create")
  /\ Untouched

(***************************************************************************)
(* CreateImageProcessingRequest and the run of the job.                    *)
(***************************************************************************)
SizeRow(s) == [width |-> s.width, height |-> s.height,
               mode |-> IF s.mode = "" THEN "contain" ELSE s.mode,
               upscale |-> AllowUpscale(env),
               quality |-> ClampQuality(env, s.quality)]

CreateRows ==
  /\ Go("create", "slot")
  /\ rows' = {SizeRow(sizes[k]) : k \in DOMAIN sizes}
  /\ UNCHANGED <<input, todo, outputs>>

\* Nothing is ever received from a channel without capacity.  The ticker of
\* the heartbeat goroutine panics on an interval that is not positive, and
\* nothing recovers it.
TakeSlot ==
  /\ MaxConcurrentImageJobs(env) > 0
  /\ Go("slot", IF HeartbeatInterval(env) > 0 THEN "inspect" ELSE "dead")
  /\ Untouched

SourceFits == /\ file.width <= MaxImageWidth(env)
              /\ file.height <= MaxImageHeight(env)

InspectSource ==
  /\ Go("inspect", IF file.decodes /\ SourceFits THEN "resize" ELSE "failed")
  /\ todo' = IF stage' = "resize" THEN rows ELSE {}
  /\ UNCHANGED <<input, rows, outputs>>

OverPixelLimitOrAtIt(spec) ==
  spec.width * spec.height >= MaxTotalOutputPixels(env)

OverPixelLimit(spec) == spec.width * spec.height > MaxTotalOutputPixels(env)

Produced(spec) ==
  LET d == Dimensions(file, spec)
  IN [spec |-> spec, width |-> d.width, height |-> d.height]

\* A size over the limit, or that WebP cannot hold, is failed on its own.
ResizeNext ==
  /\ stage = "resize"
  /\ \E spec \in todo :
       /\ todo' = todo \ {spec}
       /\ outputs' = IF OverPixelLimit(spec) \/ ~Encodable(Produced(spec))
                       THEN outputs ELSE outputs \cup {Produced(spec)}
  /\ UNCHANGED <<input, stage, rows>>

Finish == Go("resize", "done") /\ todo = {} /\ Untouched

Next == Boot \/ CheckFile \/ CheckData \/ CheckRules \/ CheckDuplicates
        \/ CreateRows \/ TakeSlot \/ InspectSource \/ ResizeNext \/ Finish

Spec == Init /\ [][Next]_vars /\ WF_vars(Next)

TypeOK ==
  /\ IsInput(input)
  /\ stage \in Stages
  /\ \A spec \in rows : spec.width \in Nat /\ spec.height \in Nat
  /\ todo \subseteq rows
  /\ \A out \in outputs : out.spec \in rows /\ out.width \in Nat \ {0}
                                            /\ out.height \in Nat \ {0}

(***************************************************************************)
(* What comes out.                                                         *)
(***************************************************************************)

\* media/{width}x{height}/{hash}.webp has the requested size in it and one
\* hash for the whole request: no two outputs of a request are stored under
\* one path, and no size asked for is lost by becoming another's row.
OutputPath(out) == <<out.spec.width, out.spec.height>>
OutputsDoNotCollide ==
  /\ \A a, b \in outputs : OutputPath(a) = OutputPath(b) => a = b
  /\ rows # {} => \A j, k \in DOMAIN sizes :
       SizeRow(sizes[j]) = SizeRow(sizes[k]) => j = k

\* The mode keeps its word about the requested box: contain and fit stay in
\* it and reach it on one side, cover, crop and fill are exactly it; without
\* upscaling no mode leaves the box.
BoxIsRespected ==
  \A out \in outputs :
    LET s == out.spec IN
    /\ out.width <= s.width /\ out.height <= s.height
    /\ s.upscale =>
         IF s.mode \in {"contain", "fit"}
           THEN out.width = s.width \/ out.height = s.height
           ELSE out.width = s.width /\ out.height = s.height

\* ALLOW_UPSCALE=false: no output is larger than the source as it is seen,
\* on either side.  (fill compares with the header of the file and may
\* enlarge a source that its EXIF orientation turns on its side.)
NeverEnlarged ==
  \A out \in outputs :
    ~out.spec.upscale /\ ~(out.spec.mode = "fill" /\ file.rotated) =>
      /\ out.width <= Upright(file).width
      /\ out.height <= Upright(file).height

\* Whatever is made obeys every limit, after defaults, clamping and rounding:
\* of the output, its encoding and the upload.
LimitsHold ==
  \A out \in outputs :
    /\ out.width <= Smaller(MaxImageWidth(env), MaxSupportedDimension)
    /\ out.height <= Smaller(MaxImageHeight(env), MaxSupportedDimension)
    /\ out.width * out.height <= MaxTotalOutputPixels(env)
    /\ QualityMin(env) <= QualityMax(env) =>
         out.spec.quality \in QualityMin(env) .. QualityMax(env)
    /\ file.sizeKnown => file.bytes <= MaxImageFileSize(env)

\* A limit that cannot be read admits nothing, and not everything.
FailsClosed ==
  (\E k \in {"max_total_output_pixels", "max_image_width", "max_image_height",
             "max_sizes_per_request"} : env[k] = Garbage) => outputs = {}

\* Settings under which the service is meant to work, and a request it must
\* not refuse.
Sane == /\ MaxConcurrentImageJobs(env) > 0 /\ HeartbeatInterval(env) > 0
        /\ QualityMin(env) <= QualityMax(env)
Admissible ==
  /\ file.present /\ file.decodes /\ SourceFits
  /\ file.bytes <= MaxImageFileSize(env)
  /\ input.data = "JSON"
  /\ Len(sizes) \in 1 .. MaxSizesPerRequest(env)
  /\ \A k \in DOMAIN sizes : SizePasses(sizes[k])
  /\ \A j, k \in DOMAIN sizes : SameSize(sizes[j], sizes[k]) => j = k

\* It is answered, with an image for every size that is within the pixel
\* limit and not wider or higher than WebP allows.
Deliverable(s) == /\ s.width * s.height <= MaxTotalOutputPixels(env)
                  /\ Encodable(s)
AdmissibleIsServed ==
  Sane /\ Admissible ~>
    /\ stage = "done"
    /\ \A k \in DOMAIN sizes : Deliverable(sizes[k]) =>
         \E out \in outputs : SameSize(out.spec, sizes[k])
=============================================================================
