--------------------------- MODULE ImageSettings ---------------------------
(***************************************************************************)
(* The settings of the image pipeline: what config/image.go takes from the *)
(* environment and what imageconfig makes of it.  env[k] is a number, or   *)
(* Unset, or Garbage for a text that is no integer of 64 bits.             *)
(***************************************************************************)
EXTENDS Integers

CONSTANTS
  Unset, Garbage,
  Nil   \* the nil *int of a request without a quality

ASSUME SettingsAssumption ==
  Unset # Garbage /\ {Unset, Garbage, Nil} \cap Int = {}

\* config/image.go; allow_upscale is 1 for true, and ParseBool knows no other.
Default ==
  [default_quality |-> 80, quality_min |-> 0, quality_max |-> 100,
   allow_upscale |-> 1, max_image_file_size |-> 25 * 1024 * 1024,
   max_image_width |-> 8000, max_image_height |-> 8000,
   max_total_output_pixels |-> 64000000, max_sizes_per_request |-> 10,
   max_concurrent_image_jobs |-> 4, heartbeat_interval_seconds |-> 15]

Settings == DOMAIN Default

DefaultEnv == [k \in Settings |-> Unset]

\* cast.ToInt of the framework's typed accessor: no number reads as 0.
GetInt(env, k) == IF env[k] = Unset THEN Default[k]
                  ELSE IF env[k] = Garbage THEN 0 ELSE env[k]

ToInt64OrDefault(env, k) ==
  IF env[k] \in {Unset, Garbage} THEN Default[k] ELSE env[k]

\* toInt64: a parse error is dropped and reads as 0 as well.
ToInt64(env, k) == IF env[k] = Unset THEN Default[k]
                   ELSE IF env[k] = Garbage THEN 0 ELSE env[k]

MaxImageFileSize(env)     == ToInt64(env, "max_image_file_size")
MaxTotalOutputPixels(env) == ToInt64(env, "max_total_output_pixels")
MaxImageWidth(env)        == GetInt(env, "max_image_width")
MaxImageHeight(env)       == GetInt(env, "max_image_height")
MaxSizesPerRequest(env)   == GetInt(env, "max_sizes_per_request")
AllowUpscale(env)         == GetInt(env, "allow_upscale") = 1
QualityMin(env)           == GetInt(env, "quality_min")
QualityMax(env)           == GetInt(env, "quality_max")
MaxConcurrentImageJobs(env) == GetInt(env, "max_concurrent_image_jobs")
HeartbeatInterval(env)    == GetInt(env, "heartbeat_interval_seconds")

AtLeast(n, min) == IF n < min THEN min ELSE n
AtMost(n, max)  == IF n > max THEN max ELSE n

ClampRequestedOnly(env, requested) ==
  IF requested = Nil THEN GetInt(env, "default_quality")
  ELSE AtMost(AtLeast(requested, QualityMin(env)), QualityMax(env))

\* The default is clamped like a requested value; the upper bound wins.
ClampQuality(env, requested) ==
  LET q == IF requested = Nil THEN GetInt(env, "default_quality")
                              ELSE requested
  IN AtMost(AtLeast(q, QualityMin(env)), QualityMax(env))
=============================================================================
