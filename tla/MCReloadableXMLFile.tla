------------------------ MODULE MCReloadableXMLFile ------------------------
(* Small instances of ReloadableXMLFile; the values are in the cfg files.  *)
EXTENDS ReloadableXMLFile
=============================================================================
