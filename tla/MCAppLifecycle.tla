--------------------------- MODULE MCAppLifecycle ---------------------------
(***************************************************************************)
(* An instance with one configuration for each outcome of the WebRTC       *)
(* set-up: the defaults, no codec at all, and a reversed port range.       *)
(***************************************************************************)
EXTENDS AppLifecycle

MCConfigs ==
    { [codecs |-> <<"video", "video", "audio", "audio">>, range |-> <<10000, 20000>>],
      [codecs |-> <<>>, range |-> <<>>],
      [codecs |-> <<"video">>, range |-> <<20000, 10000>>] }
=============================================================================
