----------------------------- MODULE MCFileData -----------------------------
\* The image of the run is sound, as the theorems of FileDataProofs ask.
EXTENDS SoundImage

ASSUME ImageIsSound == ImageSound
=============================================================================
