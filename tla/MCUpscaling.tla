----------------------------- MODULE MCUpscaling -----------------------------
(* Two modes at the ratios the runtimes use: DLSS and FSR Quality render at *)
(* 1/1.5, XeSS Quality and FSR Balanced at 1/1.7, so a mode of one provider *)
(* can have the extent of another mode of another.                          *)
EXTENDS Upscaling

MCModes == {"quality", "balanced"}

MCOptimal ==
    [p \in Providers |->
        IF p = "intel" THEN [quality |-> 2, balanced |-> 1]
        ELSE [quality |-> 1, balanced |-> 2]]
==============================================================================
