---------------------------- MODULE MCSystemHals ----------------------------
EXTENDS SystemHals
CONSTANTS camera, hdmi, touchscreen
MCDevices == <<camera, hdmi, touchscreen>>
\* black, darker than the panel's first level, and white
MCColors == {<<0, 0, 0>>, <<15, 15, 15>>, <<255, 255, 255>>}

\* What shares nothing moves apart, for a product of it would add nothing:
\* the sensors while the others have not moved, and the lights while no
\* device of powerhal.conf has failed
Apart ==
    /\ SensorInit \/ (PowerInit /\ LightInit)
    /\ LightInit \/ (missed \intersect DeviceSet = {} /\ gaveUp = {} /\ errors = 0)
=============================================================================
