--------------------------- MODULE MCRenderWindow ---------------------------
(* A small instance of RenderWindow: two resolutions.                        *)
EXTENDS RenderWindow

MCSizes == {"640x480", "800x600"}
=============================================================================
