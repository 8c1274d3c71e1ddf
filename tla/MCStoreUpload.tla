--------------------------- MODULE MCStoreUpload ---------------------------
(***************************************************************************)
(* Two families of inputs: every small geometry under default settings,    *)
(* and every setting off its default in turn with requests at its edge.    *)
(***************************************************************************)
EXTENDS StoreUpload

Photo == [present |-> TRUE, bytes |-> 1000, sizeKnown |-> TRUE,
          decodes |-> TRUE, width |-> 5, height |-> 3, rotated |-> FALSE]

Asks(w, h, m, q) == [width |-> w, height |-> h, mode |-> m, quality |-> q]

Geometries ==
  {[env |-> [DefaultEnv EXCEPT !["allow_upscale"] = up],
    file |-> [Photo EXCEPT !.width = sw, !.height = sh, !.rotated = turned],
    data |-> "JSON", sizes |-> <<Asks(w, h, m, Nil)>>] :
   up \in {0, 1}, turned \in BOOLEAN, sw \in 1 .. 4, sh \in 1 .. 5,
   w \in 1 .. 5, h \in 1 .. 4, m \in Modes}

Values == {Unset, Garbage, -1, 0, 1, 2, 4, 150, 999, 1000, 200000000}

Files == {Photo, [Photo EXCEPT !.present = FALSE],
          [Photo EXCEPT !.sizeKnown = FALSE],
          [Photo EXCEPT !.decodes = FALSE],
          [Photo EXCEPT !.rotated = TRUE],
          [Photo EXCEPT !.width = 8001],
          [Photo EXCEPT !.bytes = 26214401]}

SizeLists ==
  {<<>>, <<Asks(2, 2, "", Nil)>>, <<Asks(2, 3, "cover", 120)>>,
   <<Asks(4, 1, "other", Nil)>>, <<Asks(0, 4, "fill", 50)>>,
   <<Asks(20000, 2, "fill", 50)>>, <<Asks(100000001, 2, "fill", Nil)>>,
   <<Asks(2, 2, "crop", Nil), Asks(2, 2, "fill", 50)>>,
   <<Asks(2, 2, "crop", Nil), Asks(2, 3, "crop", 0)>>,
   <<Asks(1, 2, "fit", 100), Asks(2, 1, "fill", 1), Asks(2, 2, "", 2)>>}

Odd == {[env |-> [DefaultEnv EXCEPT ![k] = v], file |-> f, data |-> "JSON",
         sizes |-> list] :
        k \in Settings, v \in Values, f \in Files, list \in SizeLists}

NoData == {[env |-> DefaultEnv, file |-> Photo, data |-> d, sizes |-> <<>>] :
           d \in {"missing", "no JSON"}}

MCInputs == Geometries \cup Odd \cup NoData
=============================================================================
