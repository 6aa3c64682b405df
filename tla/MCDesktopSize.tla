---------------------------- MODULE MCDesktopSize ----------------------------
(* DesktopSize for TLC: windows wider and taller than the desktop asked    *)
(* for, so that a kept resolution is scaled up and down with bars on       *)
(* either side.                                                            *)
EXTENDS DesktopSize
MCNormal == {<<14, 2>>, <<1, 5>>}
MCMaximized == <<16, 1>>
MCFullScreen == <<16, 2>>
MCInitial == <<4, 1>>
=============================================================================
